---- MODULE Spec2Model ----
(***************************************************************************)
(* Model of the live position resolution engine of Terminal Access for    *)
(* NVDA (addon/globalPlugins/terminalAccess.py): PositionCache,            *)
(* PositionCalculator and the GlobalPlugin handlers that use them.         *)
(*                                                                         *)
(* The host buffer is a sequence of line lengths.  A position (the start   *)
(* of a collapsed TextInfo) is a character offset; every line but the last *)
(* is followed by one line terminator, which belongs to its line.  A       *)
(* bookmark is the offset it was taken at, and str(bookmark), the cache    *)
(* key, is determined by that offset.                                      *)
(***************************************************************************)
EXTENDS Integers, Sequences, FiniteSets, TLC

\* ---------------------------------------------------------------- bounds
\* Buffers have 1..MaxLines lines of 0..MaxLineLen characters each.
MaxLines == 2
MaxLineLen == 1
\* The clock runs from 0 to MaxTime.
MaxTime == 1
\* PositionCache.MAX_CACHE_SIZE (100 in the source), scaled down.
MAX_CACHE_SIZE == 2
\* PositionCache.CACHE_TIMEOUT_MS (1000 in the source), in clock ticks.
CACHE_TIMEOUT_MS == 1
\* The incremental distance threshold (10 in the source), scaled down.
INCREMENTAL_THRESHOLD == 2
\* Rows computed by the incremental path can drift upward without limit;
\* calls whose result would exceed MaxRow are not explored.
MaxRow == 2
\* Concurrent callers of one PositionCache.
NumThreads == 2
\* The bookmarks those callers use are 0..MaxKey.
MaxKey == 2
\* Caret positions are 0..MaxPos.
MaxPos == 1
\* The typing grace window of the cursor announcer, in clock ticks.
GraceWindow == 1
\* WindowMonitor._min_announcement_interval (2000 ms in the source), in
\* ticks of the monitor's clock.
MIN_ANNOUNCEMENT_INTERVAL == 1
\* The monitor's clock runs over 0..MaxClock.
MaxClock == 2
\* At most MaxWorkers _monitor_loop threads are alive at a time.
MaxWorkers == 2
\* Snapshots passed to TextDiffer.update have at most MaxTextLen characters.
MaxTextLen == 3
\* The coalesce delay of the announcer, in clock ticks (default 200 ms).
newOutputCoalesceMs == 1
\* Pending text of more lines than this is summarised (default 20).
newOutputMaxLines == 1
\* Feeds that would make the pending text longer than this are left out.
MaxPending == 3
\* Snapshots fed to the announcer have at most MaxSnapshotLen characters.
MaxSnapshotLen == 2
\* The background copy threads that can be created.
MaxOps == 3
\* The commands that the history holds in the model (max_history is 100).
MaxHistory == 2
\* The presses of the window commands that are followed.
MaxPresses == 8
\* The timers that caret notifications can create.
MaxTimers == 3

\* ------------------------------------------------------------- variables
VARIABLES
    buf,            \* host buffer: sequence of line lengths
    now,            \* time.time() * 1000, in ticks
    cache,          \* PositionCache._cache, in dict (insertion) order
    lastKnown,      \* PositionCalculator._last_known_position
    stale,          \* ghost: keys stored before a terminal typed-character event
    watch,          \* ghost: history of one observed token
    last,           \* ghost: what the last calculate call did
    spoken,         \* ghost: what the last caller of calculate announced or used
    lock,           \* PositionCache._lock: the thread holding it, or 0
    pc,             \* each thread's position in a PositionCache method
    lastOp,         \* ghost: what the last completed PositionCache method did
    insOrder,       \* ghost: the keys present, in the order they were inserted
    screen,         \* host: the character at each caret position
    caret,          \* host: the caret position (bookmark.startOffset)
    conf,           \* config.conf["terminalAccess"]: cursor tracking settings
    cursorTimer,    \* GlobalPlugin._cursorTrackingTimer
    lastCaretPosition,  \* GlobalPlugin._lastCaretPosition
    lastAnnounced,  \* ghost: the position of the last firing that spoke
    fired,          \* ghost: what the last firing of the cursor timer did
    typedAt,        \* ghost: time of the last typed character, or -1
    _monitors,      \* WindowMonitor._monitors: list of monitor dicts
    _last_content,  \* WindowMonitor._last_content: name -> content or None
    _last_announcement, \* WindowMonitor._last_announcement: name -> ms
    _monitoring_active, \* WindowMonitor._monitoring_active
    monitorLock,    \* WindowMonitor._lock: 0 when free, else the holder
    workers,        \* where each _monitor_loop thread is
    _monitor_thread, \* WindowMonitor._monitor_thread: the thread, or 0
    clock,          \* the monitor's clock, in ticks
    unpolled,       \* ghost: names added and not polled since
    saidAt,         \* ghost: name -> time of its last ui.message, or -1
    polled,         \* ghost: one _check_window call of the last iteration
    added,          \* ghost: the last add_monitor call
    _last_text,     \* TextDiffer: the baseline, or NoBaseline
    diffed,         \* ghost: the last TextDiffer.update call
    _pending,       \* NewOutputAnnouncer: the text waiting to be spoken
    flushTimer,     \* NewOutputAnnouncer: the coalesce timer
    outConf,        \* quietMode and announceNewOutput
    flushed,        \* ghost: the firing of the coalesce timer just made
    fed,            \* ghost: the NewOutputAnnouncer.feed call just made
    _active_operation,  \* OperationQueue: the thread it holds, or 0
    ops,            \* the state of each background copy thread
    started,        \* ghost: the last start_operation call
    _current_tab_id,    \* TabManager: the tab of the bound terminal
    _tab_bookmarks, \* BookmarkManager: tab -> bookmark names
    _matches,       \* OutputSearchManager: the matching lines
    _history,       \* CommandHistoryManager: the commands found
    owned,          \* ghost: what was recorded while each tab was current
    attrs,          \* the window attributes the plugin object has
    _windowStartSet,    \* the start of the window is recorded
    _windowStartBookmark,   \* the review position recorded as the start
    windowEnabled,  \* config: the window is defined and on
    pressed,        \* ghost: the last script_setWindow press
    walker,         \* the line-counting loop of _calculate_full
    reading,        \* the threads that are reading the terminal
    timers,         \* the wx.CallLater timers made so far
    _cursorTrackingTimer    \* the handle of the cursor timer, or 0

threadVars == <<lock, pc, lastOp, insOrder>>

cursorVars ==
    <<screen, caret, conf, cursorTimer, lastCaretPosition, lastAnnounced, fired>>

monitorVars ==
    <<_monitors, _last_content, _last_announcement, _monitoring_active,
      monitorLock, workers, _monitor_thread, clock, unpolled, saidAt, polled,
      added>>

outputVars ==
    <<_last_text, diffed, _pending, flushTimer, outConf, flushed, fed>>

pluginVars ==
    <<_active_operation, ops, started, _current_tab_id, _tab_bookmarks,
      _matches, _history, owned, attrs, _windowStartSet,
      _windowStartBookmark, windowEnabled, pressed>>

hostVars == <<walker, reading, timers, _cursorTrackingTimer>>

sideVars ==
    <<threadVars, cursorVars, typedAt, monitorVars, outputVars, pluginVars,
      hostVars>>

vars == <<buf, now, cache, lastKnown, stale, watch, last, spoken, sideVars>>

None == <<>>
SENTINEL == <<0, 0>>

Max(a, b) == IF a >= b THEN a ELSE b
Min(a, b) == IF a <= b THEN a ELSE b
Abs(a) == IF a >= 0 THEN a ELSE 0 - a

\* ------------------------------------------------------------ host buffer
Lengths == 0..MaxLineLen

Buffers == UNION {[1..n -> Lengths] : n \in 1..MaxLines}

RECURSIVE LineStart(_, _)
\* Offset of the first character of line i (1-based).
LineStart(b, i) == IF i = 1 THEN 0 ELSE LineStart(b, i - 1) + b[i - 1] + 1

\* Offset of the end of the buffer.
StoryLength(b) == LineStart(b, Len(b)) + b[Len(b)]

Offsets(b) == 0..StoryLength(b)

\* The line that holds offset off: expand(UNIT_LINE).
LineOf(b, off) ==
    CHOOSE i \in 1..Len(b) :
        /\ LineStart(b, i) <= off
        /\ (i = Len(b) \/ off < LineStart(b, i + 1))

\* textInfo.move(UNIT_LINE, n) on a collapsed position: the number of lines
\* actually moved and the new position (the start of the line reached).
moveTo(b, off, cur, tgt) ==
    [moved |-> tgt - cur, pos |-> IF tgt = cur THEN off ELSE LineStart(b, tgt)]

moveFrom(b, off, cur, n) == moveTo(b, off, cur, Max(1, Min(Len(b), cur + n)))

move(b, off, n) == moveFrom(b, off, LineOf(b, off), n)

\* self.compareEndPoints(other, "startToStart"): negative when self is
\* before other, 0 when equal, positive when after (the offset difference).
compareEndPoints(self, other) == self - other

\* lineStart.copy(); setEndPoint(target, "endToStart"); len(text): an end
\* set before the start collapses the range, which then has no text.
charsFromLineStart(lineStartOff, target) ==
    IF target >= lineStartOff THEN target - lineStartOff ELSE 0

\* ---------------------------------------------------------- PositionCache
keyOf(bookmark) == bookmark

HasKey(c, k) == \E i \in 1..Len(c) : c[i].key = k

IndexOf(c, k) == CHOOSE i \in 1..Len(c) : c[i].key = k

Keys(c) == {c[i].key : i \in 1..Len(c)}

Without(c, k) == SelectSeq(c, LAMBDA e : e.key # k)

IsFresh_inclusive(timestamp, t) == (t - timestamp) <= CACHE_TIMEOUT_MS

\* (time.time() * 1000 - timestamp) < self.CACHE_TIMEOUT_MS
IsFresh(timestamp, t) == (t - timestamp) < CACHE_TIMEOUT_MS

\* PositionCache.get: the value returned and the cache afterwards.
get(c, bookmark, t) ==
    LET key == keyOf(bookmark) IN
    IF HasKey(c, key)
    THEN LET e == c[IndexOf(c, key)] IN
         IF IsFresh(e.timestamp, t)
         THEN [val |-> <<e.row, e.col>>, cache |-> c]
         ELSE [val |-> None, cache |-> Without(c, key)]
    ELSE [val |-> None, cache |-> c]

NewestKey(c) == c[Len(c)].key

\* oldest_key = next(iter(self._cache))
OldestKey(c) == c[1].key

\* PositionCache.set, first half: enforce the size limit.
evictIfFull(c) ==
    IF Len(c) >= MAX_CACHE_SIZE THEN Without(c, OldestKey(c)) ELSE c

\* PositionCache.set, second half: self._cache[key] = (row, col, timestamp).
\* Assigning to a key already present keeps its place in the dict order.
store(c, bookmark, row, col, t) ==
    LET key == keyOf(bookmark)
        e == [key |-> key, row |-> row, col |-> col, timestamp |-> t]
    IN  IF HasKey(c, key)
        THEN [i \in 1..Len(c) |-> IF c[i].key = key THEN e ELSE c[i]]
        ELSE Append(c, e)

set_evictOnly(c, bookmark, row, col, t) == evictIfFull(c)

\* PositionCache.set
set(c, bookmark, row, col, t) == store(evictIfFull(c), bookmark, row, col, t)

\* PositionCache.invalidate
invalidate(c, bookmark) == Without(c, keyOf(bookmark))

\* PositionCache.clear
clear(c) == <<>>

\* ----------------------------------------------------- PositionCalculator
\* What the host does to one calculate call: whether reading
\* textInfo.bookmark raises, which primitive of the incremental path raises
\* and which primitive of the full walk raises.
IncFaults == {"none", "resolve", "compare", "walk"}
FullFaults == {"none", "first", "walk"}
Faults == [bm : BOOLEAN, inc : IncFaults, full : FullFaults]
NoFault == [bm |-> FALSE, inc |-> "none", full |-> "none"]

\* The column both paths compute from the line that `pos` is on.
columnFrom(b, pos, target) ==
    charsFromLineStart(LineStart(b, LineOf(b, pos)), target) + 1

\* PositionCalculator._calculate_incremental: (row, col) or None, and the
\* number of host walk primitives called.
\* The row and column _calculate_incremental computes once its walker has
\* made the move m.
incrementalResult_unclamped(b, target, lastRow, comparison, m) ==
    [val |-> <<IF comparison > 0 THEN lastRow + m.moved
               ELSE lastRow - Abs(m.moved),
               columnFrom(b, m.pos, target)>>,
     calls |-> 1]

incrementalResult(b, target, lastRow, comparison, m) ==
    [val |-> <<IF comparison > 0 THEN lastRow + m.moved
               ELSE Max(1, lastRow - Abs(m.moved)),
               columnFrom(b, m.pos, target)>>,
     calls |-> 1]

_calculate_incremental(b, target, lastOff, lastRow, lastCol, comparison, fault) ==
    IF comparison = 0
    THEN [val |-> <<lastRow, lastCol>>, calls |-> 0]
    ELSE IF fault = "walk"
    THEN [val |-> None, calls |-> 1]
    ELSE incrementalResult(b, target, lastRow, comparison,
                           move(b, lastOff, comparison))

\* PositionCalculator._try_incremental_calculation, up to the result it
\* hands back: (row, col) or None, the host walk primitives called, and
\* whether a host primitive raised.
\* What _try_incremental_calculation makes of the result r of
\* _calculate_incremental.
incrementalOutcome(r) ==
    [val |-> r.val, calls |-> 2 + r.calls, failed |-> r.val = None]

_try_incremental_calculation(b, target, lk, fault) ==
    IF fault = "resolve"
    THEN [val |-> None, calls |-> 1, failed |-> TRUE]
    ELSE IF fault = "compare"
    THEN [val |-> None, calls |-> 2, failed |-> TRUE]
    ELSE IF Abs(compareEndPoints(lk[1], target)) <= INCREMENTAL_THRESHOLD
    THEN incrementalOutcome(
             _calculate_incremental(b, target, lk[1], lk[2], lk[3],
                                    compareEndPoints(lk[1], target), fault))
    ELSE [val |-> None, calls |-> 2, failed |-> FALSE]

RECURSIVE countLines(_, _, _, _, _)
\* The line-counting loop of _calculate_full, with the walker at `pos`.
RECURSIVE countStep(_, _, _, _, _)
countLines(b, pos, target, lineCount, calls) ==
    IF compareEndPoints(pos, target) < 0
    THEN countStep(b, move(b, pos, 1), target, lineCount, calls)
    ELSE [lineCount |-> lineCount, calls |-> calls + 1]

\* One iteration of the loop: the walker has made the move m; the loop
\* breaks when it could not move.
countStep(b, m, target, lineCount, calls) ==
    IF m.moved = 0
    THEN [lineCount |-> lineCount, calls |-> calls + 2]
    ELSE countLines(b, m.pos, target, lineCount + 1, calls + 2)

\* The position _calculate_full computes from the loop's count w.
fullResult(b, target, w) ==
    [val |-> <<w.lineCount + 1, columnFrom(b, target, target)>>, calls |-> w.calls]

\* PositionCalculator._calculate_full, up to the position it computes.
_calculate_full(b, target) == fullResult(b, target, countLines(b, 0, target, 0, 2))

\* The outcome of one calculate call.
Outcome(c, lk, res, path, calls, f) ==
    [cache |-> c, lk |-> lk, res |-> res, path |-> path, calls |-> calls,
     raised |-> FALSE, noTerm |-> FALSE,
     bmFailed |-> f[1], incFailed |-> f[2], fullFailed |-> f[3]]

\* An exception leaving the try body of calculate.
Raise(c, lk, calls, f) ==
    [Outcome(c, lk, None, "error", calls, f) EXCEPT !.raised = TRUE]

except_PositionError_only(o) ==
    IF o.raised /\ o.bmFailed
    THEN [o EXCEPT !.res = SENTINEL, !.raised = FALSE]
    ELSE o

\* The except clauses of calculate: every Exception becomes (0, 0).
except_Exception(o) ==
    IF o.raised THEN [o EXCEPT !.res = SENTINEL, !.raised = FALSE] ELSE o

storeFirst(c, lk, target, val, t, failed) ==
    [cache |-> set(c, target, val[1], val[2], t),
     lk |-> <<target, val[1], val[2]>>]

\* "Cache and store" at the end of _try_incremental_calculation and of
\* _calculate_full: reached only when nothing raised before it.
cacheAndStore(c, lk, target, val, t, failed) ==
    IF failed
    THEN [cache |-> c, lk |-> lk]
    ELSE [cache |-> set(c, target, val[1], val[2], t),
          lk |-> <<target, val[1], val[2]>>]

\* The try body of PositionCalculator.calculate.
\* The outcome of a path that produced `val` and stored it as s.
Stored(s, val, path, calls, f) == Outcome(s.cache, s.lk, val, path, calls, f)

\* calculate, "Perform full calculation", after the walk: s is the cache
\* and last-known position it left.
fullOutcome(s, fault, inc, full) ==
    IF fault.full # "none"
    THEN Raise(s.cache, s.lk,
               inc.calls + (IF fault.full = "first" THEN 1 ELSE full.calls),
               <<FALSE, inc.failed, TRUE>>)
    ELSE Stored(s, full.val, "full", inc.calls + full.calls,
                <<FALSE, inc.failed, FALSE>>)

\* calculate, "Perform full calculation": `inc` is what the incremental
\* attempt gave and `full` what _calculate_full computes.
fullCalculation(c, lk, t, target, fault, inc, full) ==
    fullOutcome(cacheAndStore(c, lk, target, full.val, t, fault.full # "none"),
                fault, inc, full)

\* calculate, "Try incremental tracking": `inc` is what the attempt gave.
incrementalTracking(c, lk, t, b, target, fault, inc) ==
    IF inc.val # None
    THEN Stored(cacheAndStore(c, lk, target, inc.val, t, FALSE),
                inc.val, "incremental", inc.calls, <<FALSE, FALSE, FALSE>>)
    ELSE fullCalculation(c, lk, t, target, fault, inc, _calculate_full(b, target))

\* calculate, "Check cache first": g is what PositionCache.get gave.
checkCacheFirst(g, lk, t, b, target, fault) ==
    IF g.val # None
    THEN Outcome(g.cache, lk, g.val, "cache", 0, <<FALSE, FALSE, FALSE>>)
    ELSE incrementalTracking(g.cache, lk, t, b, target, fault,
             IF lk # None
             THEN _try_incremental_calculation(b, target, lk, fault.inc)
             ELSE [val |-> None, calls |-> 0, failed |-> FALSE])

calculateBody(c, lk, t, b, target, fault) ==
    IF fault.bm
    THEN Raise(c, lk, 0, <<TRUE, FALSE, FALSE>>)
    ELSE checkCacheFirst(get(c, target, t), lk, t, b, target, fault)

\* PositionCalculator.calculate(textInfo, terminal)
calculate(c, lk, t, b, target, terminal, fault) ==
    IF ~terminal
    THEN [Outcome(c, lk, SENTINEL, "noterminal", 0, <<FALSE, FALSE, FALSE>>)
            EXCEPT !.noTerm = TRUE]
    ELSE except_Exception(calculateBody(c, lk, t, b, target, fault))

clear_cache_entriesOnly == [cache |-> clear(cache), lk |-> lastKnown]

\* PositionCalculator.clear_cache
clear_cache == [cache |-> clear(cache), lk |-> None]

\* ------------------------------------------------------- ghost observers
\* How a calculate call changed the cache: not at all, by dropping the
\* queried token's expired entry only, or otherwise.
CacheChange(c, c2, target, t) ==
    IF c2 = c THEN "same"
    ELSE IF /\ HasKey(c, keyOf(target))
            /\ t - c[IndexOf(c, keyOf(target))].timestamp >= CACHE_TIMEOUT_MS
            /\ c2 = Without(c, keyOf(target))
         THEN "expired_dropped"
         ELSE "stored"

NoWatch(tok) ==
    [tok |-> tok, valid |-> FALSE, tq |-> 0, tc |-> 0, val |-> None, stores |-> 0]

\* The observed token's history after a calculate call on `target`:
\* tq is the time of its last successful query, tc the time its position
\* was last computed, stores the positions of other tokens stored since.
WatchAfter(w, o, target, t) ==
    IF target = w.tok /\ o.res # SENTINEL
    THEN IF o.path = "cache"
         THEN [w EXCEPT !.valid = TRUE, !.tq = t, !.val = o.res]
         ELSE [w EXCEPT !.valid = TRUE, !.tq = t, !.val = o.res,
                        !.tc = t, !.stores = 0]
    ELSE IF target # w.tok /\ w.valid /\ o.path \in {"incremental", "full"}
    THEN [w EXCEPT !.stores = Min(@ + 1, MAX_CACHE_SIZE)]
    ELSE w

StaleAfter(st, o, target) ==
    (st \cap Keys(o.cache))
        \ (IF o.path \in {"incremental", "full"} THEN {keyOf(target)} ELSE {})

\* The record of one calculate call.
\* The cache has an entry for the token with that (row, col).
Holds(c, target, res) ==
    /\ HasKey(c, keyOf(target))
    /\ <<c[IndexOf(c, keyOf(target))].row,
         c[IndexOf(c, keyOf(target))].col>> = res

LastOf(o, c, lk, st, w, t, target) ==
    [tok |-> target, path |-> o.path, res |-> o.res, raised |-> o.raised,
     calls |-> o.calls, noTerm |-> o.noTerm, bmFailed |-> o.bmFailed,
     incFailed |-> o.incFailed, fullFailed |-> o.fullFailed,
     fresh |-> (c = <<>> /\ lk = None),
     cacheChange |-> CacheChange(c, o.cache, target, t),
     lkSame |-> (o.lk = lk),
     held |-> Holds(o.cache, target, o.res),
     lkIs |-> (o.res # None /\ o.lk = <<target, o.res[1], o.res[2]>>),
     staleHit |-> (o.path = "cache" /\ keyOf(target) \in st),
     again |-> (/\ target = w.tok /\ w.valid
                /\ ~o.noTerm /\ ~o.bmFailed
                /\ t - w.tq < CACHE_TIMEOUT_MS),
     againStored |-> (/\ target = w.tok /\ w.valid
                      /\ ~o.noTerm /\ ~o.bmFailed
                      /\ t - w.tc < CACHE_TIMEOUT_MS
                      /\ w.stores < MAX_CACHE_SIZE),
     same |-> (o.res = w.val),
     rebound |-> FALSE,
     first |-> last.rebound]

NoCall ==
    [tok |-> 0, path |-> "init", res |-> None, raised |-> FALSE,
     calls |-> 0, noTerm |-> FALSE, bmFailed |-> FALSE,
     incFailed |-> FALSE, fullFailed |-> FALSE, fresh |-> FALSE,
     cacheChange |-> "same", lkSame |-> TRUE, held |-> FALSE,
     lkIs |-> FALSE, staleHit |-> FALSE,
     again |-> FALSE, againStored |-> FALSE, same |-> FALSE,
     rebound |-> FALSE, first |-> FALSE]

\* Each specification keeps the ghosts its claims read and leaves the
\* others at their initial values.
LastView(view, l) ==
    IF view = "calc"
    THEN [NoCall EXCEPT !.tok = l.tok, !.path = l.path, !.res = l.res,
                        !.raised = l.raised, !.noTerm = l.noTerm,
                        !.bmFailed = l.bmFailed, !.incFailed = l.incFailed,
                        !.fullFailed = l.fullFailed, !.fresh = l.fresh,
                        !.cacheChange = l.cacheChange, !.lkSame = l.lkSame,
                        !.held = l.held, !.lkIs = l.lkIs,
                        !.first = l.first]
    ELSE IF view = "repeat"
    THEN IF l.again \/ l.againStored
         THEN [NoCall EXCEPT !.path = l.path, !.calls = l.calls,
                             !.again = l.again, !.againStored = l.againStored,
                             !.same = l.same]
         ELSE [NoCall EXCEPT !.path = l.path]
    ELSE IF view = "typed"
    THEN [NoCall EXCEPT !.path = l.path, !.staleHit = l.staleHit]
    ELSE NoCall

\* One call of self._positionCalculator.calculate from state s, with the
\* ghosts brought up to date.
Observed(view, s, target, o) ==
    [cache |-> o.cache, lk |-> o.lk, res |-> o.res,
     stale |-> IF view = "typed" THEN StaleAfter(s.stale, o, target) ELSE {},
     watch |-> IF view = "repeat" THEN WatchAfter(s.watch, o, target, now)
               ELSE s.watch,
     last |-> LastView(view,
                  LastOf(o, s.cache, s.lk, s.stale, s.watch, now, target))]

Call(view, s, target, terminal, fault) ==
    Observed(view, s, target,
             calculate(s.cache, s.lk, now, buf, target, terminal, fault))

Here == [cache |-> cache, lk |-> lastKnown, stale |-> stale, watch |-> watch]

Becomes(r) ==
    /\ cache' = r.cache
    /\ lastKnown' = r.lk
    /\ stale' = r.stale
    /\ watch' = r.watch
    /\ last' = r.last

\* The host conditions a call can meet: no terminal attached, or a terminal
\* and any combination of raising primitives.
FaultCases == {f \in Faults : f.bm => (f.inc = "none" /\ f.full = "none")}
Envs == {<<FALSE, NoFault>>} \cup {<<TRUE, f>> : f \in FaultCases}

\* The calls explored: those whose row, if any, is at most MaxRow.
WithinRows(res) == res = None \/ res[1] <= MaxRow

Unavailable(res) == res[1] = 0 \/ res[2] = 0

\* What a caller of calculate did with the result: said "unavailable", spoke
\* a row and column ("rowcol"), used them silently ("used"), or nothing;
\* `sentinel` tells whether a calculate call of the handler returned (0, 0).
Said(caller, kind, sentinel) ==
    [caller |-> caller, kind |-> kind, sentinel |-> sentinel]

Silent == Said("none", "none", FALSE)

\* ------------------------------------------------- threads and their ghosts
Threads == 1..NumThreads

CacheKeys == 0..MaxKey

\* A thread outside every PositionCache method.
Idle ==
    [at |-> "idle", key |-> 0, row |-> 0, col |-> 0, had |-> FALSE,
     full |-> FALSE, victim |-> -1, evicted |-> {}]

NoOp ==
    [op |-> "none", key |-> 0, had |-> FALSE, age |-> 0, stored |-> None,
     val |-> None, removed |-> FALSE, cacheSame |-> TRUE, orderKept |-> TRUE,
     nextBefore |-> -1, nextAfter |-> -1, full |-> FALSE, evicted |-> {},
     args |-> None, at |-> 0, lenAfter |-> 0]

\* The key inserted earliest among those present, or -1.
EarliestInserted(ins) == IF ins = <<>> THEN -1 ELSE Head(ins)

\* The insertion history after the cache became c2: deleted keys leave it,
\* a key that was not present joins it at the end.
InsAfter(ins, c2) ==
    LET kept == SelectSeq(ins, LAMBDA k : k \in Keys(c2))
        new == Keys(c2) \ {ins[i] : i \in 1..Len(ins)}
    IN  IF new = {} THEN kept ELSE Append(kept, CHOOSE k \in new : TRUE)

\* ------------------------------------------------- cursor tracking state
\* Cursor tracking modes.
CT_OFF == 0
CT_STANDARD == 1

Positions == 0..MaxPos

\* What info.text can be after expand(UNIT_CHARACTER): a printable
\* character, a space or a line terminator.  Empty text takes the same
\* branches as the line terminator in _announceStandardCursor.
Chars == {"a", " ", "\n"}

\* No timer; `superseded` tells whether a caret notification arrived after
\* the one that scheduled the timer.
NoTimer == [pending |-> FALSE, superseded |-> FALSE, typedInGrace |-> FALSE]

NoFiring ==
    [done |-> FALSE, superseded |-> FALSE, char |-> "", read |-> FALSE,
     same |-> FALSE, sameAnnounced |-> FALSE, spoke |-> "none",
     changed |-> FALSE, typedInGrace |-> FALSE]

\* GlobalPlugin.__init__: no timer, no caret position seen; the settings
\* are the confspec defaults.
CursorInit ==
    /\ screen = [p \in Positions |-> "\n"]
    /\ caret = 0
    /\ conf = [cursorTracking |-> TRUE, quietMode |-> FALSE,
               cursorTrackingMode |-> CT_STANDARD]
    /\ cursorTimer = NoTimer
    /\ lastCaretPosition = -1
    /\ lastAnnounced = -1
    /\ fired = NoFiring
    /\ typedAt = -1

\* ----------------------------------------------------------- monitor state
\* Monitor names, announcement modes and polling intervals (in ticks) that
\* callers pass to add_monitor.
Names == {"build", "logs"}
Modes == {"changes", "silent"}
Intervals == {0, 1}

\* Window bounds (top, left, bottom, right) that callers pass: one valid
\* window, bottom < top, right < left, and top < 1.
WindowBounds ==
    {<<1, 1, 1, 1>>, <<2, 1, 1, 1>>, <<1, 2, 1, 1>>, <<0, 1, 1, 1>>}

\* What _extract_window_content returns: "" also when the extraction
\* fails or there is no terminal.
Contents == {"", "x"}

Workers == 1..MaxWorkers

\* What each specification varies.  "regions": every add_monitor argument,
\* over windows that stay empty.  "poll": the window contents and the
\* clock, for valid registrations polled on every iteration.  "stop": the
\* threads, for one registration.  "faults": the failures of the
\* extraction and of _check_window.
NamesOf(view) == IF view = "stop" THEN {"build"} ELSE Names
ModesOf(view) ==
    IF view \in {"stop", "enabled"} THEN {"changes"} ELSE Modes
IntervalsOf(view) ==
    IF view \in {"regions", "enabled"} THEN Intervals ELSE {0}
BoundsOf(view) == IF view = "regions" THEN WindowBounds ELSE {<<1, 1, 1, 1>>}
ContentsOf(view) == IF view = "regions" THEN {""} ELSE Contents
WorkersOf(view) == IF view = "stop" THEN Workers ELSE {1}

\* How the poll of one region can fail: the extraction raises inside
\* _extract_window_content, or _check_window raises after it.
FaultsOf(view) ==
    IF view = "faults" THEN {"none", "extract", "check"} ELSE {"none"}

\* None as a content, and the mark of a key that a dict does not hold.
NoContent == "<None>"
Missing == "<missing>"
NoTime == -1

\* time.time() * 1000: far above every interval, so that the difference
\* with the initial 0 of last_check and _last_announcement exceeds them.
StartTime == MIN_ANNOUNCEMENT_INTERVAL + 2

time_ms(c) == StartTime + c

NoPoll ==
    [done |-> FALSE, mode |-> "silent", first |-> FALSE, differs |-> FALSE,
     said |-> FALSE, stored |-> FALSE, gap |-> "none", active |-> FALSE,
     failed |-> FALSE, otherFailed |-> FALSE, called |-> FALSE,
     looping |-> FALSE, context |-> "none", registered |-> FALSE,
     enabled |-> FALSE, elapsed |-> FALSE, limited |-> FALSE]

NoAdd == [done |-> FALSE, rejectable |-> FALSE, ret |-> FALSE, same |-> FALSE]

\* WindowMonitor.__init__.
MonitorInit ==
    /\ _monitors = <<>>
    /\ _last_content = [n \in Names |-> Missing]
    /\ _last_announcement = [n \in Names |-> NoTime]
    /\ _monitoring_active = FALSE
    /\ monitorLock = 0
    /\ workers = [w \in Workers |-> "dead"]
    /\ _monitor_thread = 0
    /\ clock = 0
    /\ unpolled = {}
    /\ saidAt = [n \in Names |-> NoTime]
    /\ polled = NoPoll
    /\ added = NoAdd

\* ------------------------------------------------------------ output state
\* No baseline yet: distinct from every text, the empty one included.
NoBaseline == <<"<None>">>

NoDiff ==
    [done |-> FALSE, old |-> NoBaseline, new |-> <<>>, kind |-> "INITIAL",
     payload |-> <<>>, stored |-> FALSE]

\* The escape sequence of a colour change, one piece of a text.
ESC == "ESC[0m"

\* appendedOnly: nothing but appends made the pending text; burst: their
\* payloads, one after the other, as long as that is so.
NoFlushTimer ==
    [pending |-> FALSE, due |-> 0, burst |-> <<>>, appendedOnly |-> TRUE]

NoFlush ==
    [done |-> FALSE, quietMode |-> FALSE, announceNewOutput |-> TRUE,
     calls |-> 0, text |-> <<>>,
     burst |-> <<>>, appendedOnly |-> TRUE, waited |-> 0,
     stripAnsiInOutput |-> FALSE, cleared |-> FALSE]

NoFeed == [done |-> FALSE, kind |-> "INITIAL", silent |-> TRUE]

\* TextDiffer() and NewOutputAnnouncer(): no baseline, nothing pending; the
\* settings are the defaults.
OutputInit ==
    /\ _last_text = NoBaseline
    /\ diffed = NoDiff
    /\ _pending = <<>>
    /\ flushTimer = NoFlushTimer
    /\ outConf = [quietMode |-> FALSE, announceNewOutput |-> TRUE,
                  stripAnsiInOutput |-> TRUE]
    /\ flushed = NoFlush
    /\ fed = NoFeed

\* ------------------------------------------------------------ plugin state
OpIds == 1..MaxOps

NoStart ==
    [done |-> FALSE, thread |-> 0, result |-> FALSE, alive |-> {},
     ran |-> FALSE]

Tabs == {"tabA", "tabB"}

\* The tab of the terminal that gets the focus first.
FirstTab == "tabA"

BookmarkNames == {"1"}

\* The lines of the terminal that a search can match.
MatchLines == {1, 2}

Commands == {"ls", "cd"}

Nothing == [bookmarks |-> {}, matches |-> {}, history |-> <<>>]

\* n: the window commands run so far; was: the start was recorded before
\* the press; valid: there was a review position; failed: an exception.
NoPress ==
    [done |-> FALSE, script |-> "", n |-> 0, was |-> FALSE, valid |-> FALSE,
     failed |-> FALSE, said |-> ""]

\* GlobalPlugin.__init__ and the first focus on a terminal: an idle queue,
\* managers without entries bound to the first tab, a window that is off.
PluginInit ==
    /\ _active_operation = 0
    /\ ops = [t \in OpIds |-> "new"]
    /\ started = NoStart
    /\ _current_tab_id = FirstTab
    /\ _tab_bookmarks = [t \in Tabs |-> {}]
    /\ _matches = {}
    /\ _history = <<>>
    /\ owned = [t \in Tabs |-> Nothing]
    /\ attrs = {}
    /\ _windowStartSet = FALSE
    /\ _windowStartBookmark = -1
    /\ windowEnabled = FALSE
    /\ pressed = NoPress

TimerIds == 1..MaxTimers

NoWalk ==
    [at |-> "idle", pos |-> 0, target |-> 0, lineCount |-> 0,
     ended |-> "none"]

\* No calculation is running and nobody reads the terminal.
HostInit ==
    /\ walker = NoWalk
    /\ reading = {}
    /\ timers = [t \in TimerIds |-> "unused"]
    /\ _cursorTrackingTimer = 0

\* ---------------------------------------------------------------- actions
InitView(view) ==
    /\ CursorInit
    /\ MonitorInit
    /\ OutputInit
    /\ PluginInit
    /\ HostInit
    /\ lock = 0
    /\ pc = [t \in Threads |-> Idle]
    /\ lastOp = NoOp
    /\ insOrder = <<>>
    /\ buf \in Buffers
    /\ now = 0
    /\ cache = <<>>
    /\ lastKnown = None
    /\ stale = {}
    /\ watch \in {NoWatch(tok) :
                    tok \in IF view = "repeat" THEN Offsets(buf) ELSE {0}}
    /\ last = NoCall
    /\ spoken = Silent

\* The clock advances.
Tick ==
    /\ now < MaxTime
    /\ now' = now + 1
    /\ UNCHANGED <<sideVars, buf, cache, lastKnown, stale, watch, last, spoken>>

\* PositionCalculator.calculate called on the position `tok`.
Calculate(view) ==
    \E tok \in Offsets(buf), env \in Envs :
      \E r \in {Call(view, Here, tok, env[1], env[2])} :
        /\ WithinRows(r.res)
        /\ Becomes(r)
        /\ UNCHANGED <<sideVars, buf, now, spoken>>

\* GlobalPlugin.event_typedCharacter: the cache is cleared only past the
\* keyEcho and quietMode returns.
event_typedCharacter(view) ==
    \E isTerminalApp \in BOOLEAN, keyEcho \in BOOLEAN, quietMode \in BOOLEAN :
        IF isTerminalApp /\ keyEcho /\ ~quietMode
        THEN /\ cache' = clear_cache.cache
             /\ lastKnown' = clear_cache.lk
             /\ stale' = {}
             /\ watch' = NoWatch(watch.tok)
             /\ typedAt' = IF view = "cursor" THEN now ELSE typedAt
             /\ UNCHANGED <<threadVars, cursorVars, monitorVars, outputVars, pluginVars,
                            hostVars, buf,
                            now, last, spoken>>
        ELSE /\ stale' = IF view = "typed" /\ isTerminalApp
                         THEN Keys(cache) ELSE stale
             /\ typedAt' = IF view = "cursor" /\ isTerminalApp
                           THEN now ELSE typedAt
             /\ UNCHANGED <<threadVars, cursorVars, monitorVars, outputVars, pluginVars,
                            hostVars, buf,
                            now, cache, lastKnown,
                            watch, last, spoken>>

queueVars == <<_active_operation, ops, started>>

tabVars == <<_current_tab_id, _tab_bookmarks, _matches, _history, owned>>

windowVars ==
    <<attrs, _windowStartSet, _windowStartBookmark, windowEnabled, pressed>>

Owned(what) == [owned EXCEPT ![_current_tab_id] = what]

\* OutputSearchManager.clear_search()
clear_search == _matches' = {}

\* CommandHistoryManager.clear_history()
clear_history == _history' = <<>>

\* GlobalPlugin.event_gainFocus on the terminal of a tab: update_terminal
\* of the tab manager makes it the current tab; update_terminal of the
\* search and history managers clears them; then clear_cache(). A focus
\* that stays on the tab changes what the tab holds.
event_gainFocus(tab) ==
    /\ _current_tab_id' = tab
    /\ clear_search
    /\ clear_history
    /\ owned' = IF tab = _current_tab_id
                THEN Owned([owned[tab] EXCEPT !.matches = {},
                                              !.history = <<>>])
                ELSE owned
    /\ cache' = clear_cache.cache
    /\ lastKnown' = clear_cache.lk
    /\ stale' = {}
    /\ watch' = NoWatch(watch.tok)
    /\ last' = [last EXCEPT !.rebound = TRUE]
    /\ UNCHANGED <<threadVars, cursorVars, typedAt, monitorVars, outputVars,
                   queueVars, windowVars, hostVars, _tab_bookmarks, buf, now,
                   spoken>>

Init == InitView("calc")

Next ==
    \/ Tick
    \/ Calculate("calc")
    \/ event_typedCharacter("calc")
    \/ event_gainFocus(FirstTab)

\* The calculator and the events that clear its cache.
Spec == Init /\ [][Next]_vars

\* ------------------------------------------------------ claims under Spec
\* The position of `tok` in the buffer: the 1-based line that holds it and
\* the characters between that line's start and it, plus one.
TruePosition(b, tok) ==
    <<LineOf(b, tok), tok - LineStart(b, LineOf(b, tok)) + 1>>

Called == last.path # "init"

\* C1 as stated: calculate never raises, and whenever the terminal is
\* missing or any host primitive failed during the call it returns (0, 0).
C1_AnyFailureGivesSentinel ==
    Called =>
        /\ ~last.raised
        /\ (last.noTerm \/ last.bmFailed \/ last.incFailed \/ last.fullFailed)
              => last.res = SENTINEL

\* C1 amended: calculate never raises and always returns a pair; it returns
\* (0, 0) when no terminal is attached, when reading the bookmark fails and
\* when a primitive of the full walk fails.  A failure confined to the
\* incremental path is absorbed by the full walk.
C1_NeverRaises ==
    Called =>
        /\ ~last.raised
        /\ last.res # None
        /\ (last.noTerm \/ last.bmFailed \/ last.fullFailed)
              => last.res = SENTINEL

C1_Witness ==
    /\ last.incFailed /\ last.fullFailed
    /\ last.res = SENTINEL /\ ~last.raised

\* C2: with an empty cache and no last-known position, calculate returns
\* the row of the line holding the token and the column within that line.
C2_FullWalkPosition ==
    (last.fresh /\ last.path = "full") => last.res = TruePosition(buf, last.tok)

\* C3: whatever the history, a successful calculate returns what the full
\* walk from the buffer start gives for the token.
C3_SameAsFullWalk ==
    last.path \in {"cache", "incremental", "full"}
        => last.res = _calculate_full(buf, last.tok).val

\* C9 as stated: after a failure in the incremental path the call returns
\* the full walk's result; if the full walk fails too it returns (0, 0) and
\* leaves the cache and the last-known position unchanged.
C9_FallbackLeavesCacheUnchanged ==
    last.incFailed =>
        IF last.fullFailed
        THEN last.res = SENTINEL /\ last.cacheChange = "same" /\ last.lkSame
        ELSE last.path = "full" /\ last.res = _calculate_full(buf, last.tok).val

\* C9 amended: as stated, except that in the failing case the cache may
\* have lost the queried token's expired entry, which the lookup removed;
\* nothing is added or overwritten and the last-known position is unchanged.
C9_FallbackStoresNothing ==
    last.incFailed =>
        IF last.fullFailed
        THEN /\ last.res = SENTINEL
             /\ last.cacheChange \in {"same", "expired_dropped"}
             /\ last.lkSame
        ELSE last.path = "full" /\ last.res = _calculate_full(buf, last.tok).val

C9_Witness ==
    /\ last.incFailed /\ last.fullFailed /\ last.res = SENTINEL
    /\ last.cacheChange = "expired_dropped"

\* ------------------------------------------- repeated queries (SpecRepeat)
InitRepeat == InitView("repeat")

NextRepeat ==
    \/ Tick
    \/ Calculate("repeat")
    \/ event_typedCharacter("repeat")
    \/ event_gainFocus(FirstTab)

\* The calculator, with the history of one observed token.
SpecRepeat == InitRepeat /\ [][NextRepeat]_vars

\* C4 as stated: a token whose calculate succeeded and which is queried
\* again (terminal attached, bookmark readable) within the TTL of that
\* call, with no cache invalidation between the two, is answered without
\* any host walk primitive and with the same (row, col), whatever other
\* calculate calls were made in between.
C4_RepeatIsCached ==
    last.again => (last.calls = 0 /\ last.same)

\* C4 amended: a token whose position was computed and stored, and which is
\* queried again (terminal attached, bookmark readable) less than the TTL
\* after that computation, with no cache invalidation and fewer than
\* MAX_CACHE_SIZE positions of other tokens stored in between, is answered
\* from the cache: no host walk primitive is called and the (row, col) is
\* the same.
C4_RepeatIsCachedUnlessEvicted ==
    last.againStored => (last.path = "cache" /\ last.calls = 0 /\ last.same)

C4_Witness ==
    /\ last.againStored /\ last.path = "cache" /\ last.same
    /\ watch.stores > 0

\* ---------------------------------------- typed characters (SpecTyped)
InitTyped == InitView("typed")

NextTyped ==
    \/ Tick
    \/ Calculate("typed")
    \/ event_typedCharacter("typed")
    \/ event_gainFocus(FirstTab)

\* The calculator, with the keys stored before a typed character.
SpecTyped == InitTyped /\ [][NextTyped]_vars

\* C8: after a typed-character event for a terminal application, in every
\* setting of keyEcho and quietMode, no calculate is answered from an entry
\* cached before the event.
C8_TypedCharInvalidates == ~last.staleHit

\* ------------------------------------ callers of calculate (SpecCallers)
\* GlobalPlugin.script_announcePosition on the review position.
script_announcePosition ==
    \/ /\ spoken' = Said("announcePosition", "unavailable", FALSE)
       /\ UNCHANGED <<sideVars, buf, now, cache, lastKnown, stale, watch, last>>
    \/ \E tok \in Offsets(buf), env \in Envs :
         \E r \in {Call("callers", Here, tok, env[1], env[2])} :
           /\ WithinRows(r.res)
           /\ Becomes(r)
           /\ spoken' = IF r.res[1] = 0 \/ r.res[2] = 0
                        THEN Said("announcePosition", "unavailable",
                                  r.res = SENTINEL)
                        ELSE Said("announcePosition", "rowcol",
                                  r.res = SENTINEL)
           /\ UNCHANGED <<sideVars, buf, now>>

\* GlobalPlugin._getPositionContext, whose text _announceWithContext speaks
\* in verbose mode: "" without a terminal, else "Row {row+1}, column {col+1}".
_getPositionContext ==
    \/ /\ spoken' = Said("positionContext", "none", FALSE)
       /\ UNCHANGED <<sideVars, buf, now, cache, lastKnown, stale, watch, last>>
    \/ \E tok \in Offsets(buf), f \in FaultCases :
         \E r \in {Call("callers", Here, tok, TRUE, f)} :
           /\ WithinRows(r.res)
           /\ Becomes(r)
           /\ spoken' = Said("positionContext", "rowcol", r.res = SENTINEL)
           /\ UNCHANGED <<sideVars, buf, now>>

\* GlobalPlugin._announceWindowCursor: the caret's (row, col) becomes
\* _lastCaretPosition and is compared with the window bounds.
_announceWindowCursor ==
    \E tok \in Offsets(buf), env \in Envs :
      \E r \in {Call("callers", Here, tok, env[1], env[2])} :
        /\ WithinRows(r.res)
        /\ Becomes(r)
        /\ spoken' = Said("windowCursor", "used", r.res = SENTINEL)
        /\ UNCHANGED <<sideVars, buf, now>>

\* The host conditions the two calls of a rectangular copy are met with.
CopyFaults == {f \in FaultCases : f.inc = "none" /\ f.full # "first"}

\* The two calculate calls of a rectangular copy, on the start mark and
\* then on the end mark.
copyResult(r1, r2) ==
    [after |-> r2,
     maxRow |-> Max(r1.res[1], r2.res[1]),
     zero |-> (Unavailable(r1.res) \/ Unavailable(r2.res)),
     sentinel |-> (r1.res = SENTINEL \/ r2.res = SENTINEL)]

copyEnd(r1, endTok, f2) == copyResult(r1, Call("callers", r1, endTok, TRUE, f2))

copyCalls(s, startTok, endTok, f1, f2) ==
    copyEnd(Call("callers", s, startTok, TRUE, f1), endTok, f2)

\* GlobalPlugin.script_copyRectangularSelection up to its coordinate
\* validation: "Unable to copy" without a terminal, else two calculate
\* calls and "Unable to determine position" when a coordinate is 0.
script_copyRectangularSelection ==
    \/ /\ spoken' = Said("copyRectangular", "none", FALSE)
       /\ UNCHANGED <<sideVars, buf, now, cache, lastKnown, stale, watch, last>>
    \/ \E startTok \in Offsets(buf), endTok \in Offsets(buf),
          f1 \in CopyFaults, f2 \in CopyFaults :
         \E cc \in {copyCalls(Here, startTok, endTok, f1, f2)} :
           /\ cc.maxRow <= MaxRow
           /\ Becomes(cc.after)
           /\ spoken' = Said("copyRectangular",
                             IF cc.zero THEN "unavailable" ELSE "used",
                             cc.sentinel)
           /\ UNCHANGED <<sideVars, buf, now>>

InitCallers == InitView("callers")

NextCallers ==
    \/ Tick
    \/ script_announcePosition
    \/ _getPositionContext
    \/ _announceWindowCursor
    \/ script_copyRectangularSelection
    \/ event_typedCharacter("callers")
    \/ event_gainFocus(FirstTab)

\* The handlers of GlobalPlugin that call calculate.
SpecCallers == InitCallers /\ [][NextCallers]_vars

\* C10: whenever calculate returns (0, 0), the caller treats the position
\* as unavailable and neither speaks nor uses row and column numbers.
C10_SentinelIsUnavailable ==
    spoken.sentinel => spoken.kind = "unavailable"

\* -------------------------------- PositionCache under threads (SpecCache)
LockIgnored(l) == TRUE

\* `with self._lock` can be entered when no thread holds the lock.
LockFree(l) == l = 0

\* Thread `id` of the kind `thread` is inside a call that reads the
\* terminal.
inRead(thread, id) == \E r \in reading : r.thread = thread /\ r.id = id

calcVars ==
    <<buf, lastKnown, stale, watch, last, spoken, cursorVars, typedAt,
      monitorVars, outputVars, pluginVars, hostVars>>

At(t, where) == pc[t].at = where

\* Leaving the `with self._lock` block at the end of a method.
Return(t) ==
    /\ lock' = 0
    /\ pc' = [pc EXCEPT ![t] = Idle]

\* A thread calls get, set, invalidate or clear and reaches `with self._lock`.
call(t) ==
    /\ At(t, "idle")
    /\ \E op \in {"get", "set", "invalidate", "clear"},
          key \in CacheKeys, row \in 1..MaxRow :
         /\ op # "set" => row = 1
         /\ op = "clear" => key = 0
         /\ pc' = [pc EXCEPT ![t] = [Idle EXCEPT !.at = "waiting:" \o op,
                                                  !.key = key, !.row = row,
                                                  !.col = 1]]
    /\ UNCHANGED <<calcVars, now, cache, lock, lastOp, insOrder>>

\* The thread acquires self._lock.
acquire(t) ==
    /\ \E op \in {"get", "set", "invalidate", "clear"} :
         /\ At(t, "waiting:" \o op)
         /\ pc' = [pc EXCEPT ![t].at = IF op = "set" THEN "set_enforce" ELSE op]
    /\ LockFree(lock)
    /\ lock' = t
    /\ UNCHANGED <<calcVars, now, cache, lastOp, insOrder>>

Waiting(t) == \E op \in {"get", "set", "invalidate", "clear"} : At(t, "waiting:" \o op)

\* What a get of `key` at time t did to cache c, giving g.
GetSeen(c, g, key, t, ins) ==
    [NoOp EXCEPT
       !.op = "get", !.key = key,
       !.had = HasKey(c, key),
       !.age = IF HasKey(c, key) THEN t - c[IndexOf(c, key)].timestamp ELSE 0,
       !.stored = IF HasKey(c, key)
                  THEN <<c[IndexOf(c, key)].row, c[IndexOf(c, key)].col>>
                  ELSE None,
       !.val = g.val,
       !.removed = ~HasKey(g.cache, key),
       !.cacheSame = (g.cache = c),
       !.orderKept = (InsAfter(ins, g.cache) = SelectSeq(ins, LAMBDA k : k # key)
                        \/ InsAfter(ins, g.cache) = ins),
       !.nextBefore = EarliestInserted(ins),
       !.nextAfter = EarliestInserted(InsAfter(ins, g.cache))]

\* PositionCache.get, under the lock.
get_locked(t) ==
    /\ At(t, "get")
    /\ \E g \in {get(cache, pc[t].key, now)} :
         /\ cache' = g.cache
         /\ lastOp' = GetSeen(cache, g, pc[t].key, now, insOrder)
         /\ insOrder' = InsAfter(insOrder, g.cache)
    /\ Return(t)
    /\ UNCHANGED <<calcVars, now>>

\* PositionCache.set, under the lock: enforce the size limit.
set_enforce(t) ==
    /\ At(t, "set_enforce")
    /\ cache' = evictIfFull(cache)
    /\ insOrder' = InsAfter(insOrder, evictIfFull(cache))
    /\ pc' = [pc EXCEPT ![t].at = "set_assign",
                        ![t].had = HasKey(cache, keyOf(pc[t].key)),
                        ![t].full = (Len(cache) = MAX_CACHE_SIZE),
                        ![t].victim = EarliestInserted(insOrder),
                        ![t].evicted = Keys(cache) \ Keys(evictIfFull(cache))]
    /\ UNCHANGED <<calcVars, now, lock, lastOp>>

\* What a set by thread t did, the cache having become c2 at time ts.
SetSeen(p, c2, ts) ==
    [NoOp EXCEPT
       !.op = "set", !.key = p.key, !.had = p.had, !.full = p.full,
       !.nextBefore = p.victim, !.evicted = p.evicted,
       !.args = <<p.row, p.col>>,
       !.stored = c2[IndexOf(c2, keyOf(p.key))],
       !.at = ts, !.lenAfter = Len(c2)]

\* PositionCache.set, under the lock: store the entry and return.
set_assign(t) ==
    /\ At(t, "set_assign")
    /\ \E c2 \in {store(cache, pc[t].key, pc[t].row, pc[t].col, now)} :
         /\ cache' = c2
         /\ insOrder' = InsAfter(insOrder, c2)
         /\ lastOp' = SetSeen(pc[t], c2, now)
    /\ Return(t)
    /\ UNCHANGED <<calcVars, now>>

\* PositionCache.invalidate, under the lock.
invalidate_locked(t) ==
    /\ At(t, "invalidate")
    /\ cache' = invalidate(cache, pc[t].key)
    /\ insOrder' = InsAfter(insOrder, invalidate(cache, pc[t].key))
    /\ lastOp' = [NoOp EXCEPT !.op = "invalidate", !.key = pc[t].key]
    /\ Return(t)
    /\ UNCHANGED <<calcVars, now>>

\* PositionCache.clear, under the lock.
clear_locked(t) ==
    /\ At(t, "clear")
    /\ cache' = clear(cache)
    /\ insOrder' = <<>>
    /\ lastOp' = [NoOp EXCEPT !.op = "clear"]
    /\ Return(t)
    /\ UNCHANGED <<calcVars, now>>

\* The clock advances, whatever the threads are doing.
TickCache ==
    /\ now < MaxTime
    /\ now' = now + 1
    /\ UNCHANGED <<calcVars, cache, threadVars>>

InitCache ==
    /\ CursorInit
    /\ MonitorInit
    /\ OutputInit
    /\ PluginInit
    /\ HostInit
    /\ buf = <<0>>
    /\ now = 0
    /\ cache = <<>>
    /\ lastKnown = None
    /\ stale = {}
    /\ watch = NoWatch(0)
    /\ last = NoCall
    /\ spoken = Silent
    /\ lock = 0
    /\ pc = [t \in Threads |-> Idle]
    /\ lastOp = NoOp
    /\ insOrder = <<>>

NextCache ==
    \/ TickCache
    \/ \E t \in Threads : call(t)
    \/ \E t \in Threads : acquire(t)
    \/ \E t \in Threads : get_locked(t)
    \/ \E t \in Threads : set_enforce(t)
    \/ \E t \in Threads : set_assign(t)
    \/ \E t \in Threads : invalidate_locked(t)
    \/ \E t \in Threads : clear_locked(t)

\* One PositionCache used by concurrent threads.
SpecCache == InitCache /\ [][NextCache]_vars

\* C5: whatever get, set, invalidate and clear calls the threads make and
\* however they interleave, the cache never holds more than MAX_CACHE_SIZE
\* entries.
C5_SizeBounded == Len(cache) <= MAX_CACHE_SIZE

C5_Witness ==
    /\ lastOp.op = "set" /\ lastOp.full /\ lastOp.evicted # {}
    /\ Len(cache) = MAX_CACHE_SIZE
    /\ \E t \in Threads : Waiting(t)
    /\ \E t \in Threads : At(t, "set_enforce")

\* C37: a set on a token that already has an entry changes that entry
\* only: no entry of another token is removed, also when the cache holds
\* MAX_CACHE_SIZE entries, and the number of entries stays the same.
C37_OverwriteKeepsOthers ==
    (lastOp.op = "set" /\ lastOp.had)
        => /\ lastOp.evicted \subseteq {keyOf(lastOp.key)}
           /\ lastOp.full => lastOp.lenAfter = MAX_CACHE_SIZE

\* C6: get returns the stored (row, col) exactly when the token has an
\* entry whose age is less than the TTL; when the entry's age is the TTL or
\* more, get returns nothing and the entry is gone from the cache.
C6_GetFreshOrAbsent ==
    lastOp.op = "get" =>
        IF lastOp.had /\ lastOp.age < CACHE_TIMEOUT_MS
        THEN lastOp.val = lastOp.stored /\ lastOp.val # None /\ lastOp.cacheSame
        ELSE lastOp.val = None /\ lastOp.removed

C6_Witness ==
    /\ lastOp.op = "get" /\ lastOp.had /\ lastOp.age = CACHE_TIMEOUT_MS
    /\ lastOp.val = None /\ lastOp.removed

\* The set half of C7: a set of an absent key on a cache holding
\* MAX_CACHE_SIZE entries removes exactly the entry whose key was inserted
\* earliest and stores the new key with the current timestamp.
SetEvictsEarliest ==
    (lastOp.op = "set" /\ ~lastOp.had /\ lastOp.full) =>
        /\ lastOp.evicted = {lastOp.nextBefore}
        /\ lastOp.lenAfter = MAX_CACHE_SIZE
        /\ lastOp.stored = [key |-> keyOf(lastOp.key), row |-> lastOp.args[1],
                             col |-> lastOp.args[2], timestamp |-> lastOp.at]

\* C7 as stated: the set half, and no get changes which entry is evicted
\* next.
C7_GetNeverChangesNextEvicted ==
    /\ SetEvictsEarliest
    /\ lastOp.op = "get" => lastOp.nextAfter = lastOp.nextBefore

\* C7 amended: the set half, and a get leaves the insertion order of the
\* entries it does not remove as it was; it changes which entry is evicted
\* next only when it removes that entry itself, the entry being the queried
\* one and expired.
C7_FifoEviction ==
    /\ SetEvictsEarliest
    /\ lastOp.op = "get" =>
          /\ lastOp.orderKept
          /\ \/ lastOp.nextAfter = lastOp.nextBefore
             \/ /\ lastOp.nextBefore = keyOf(lastOp.key)
                /\ lastOp.had /\ lastOp.age >= CACHE_TIMEOUT_MS
                /\ lastOp.val = None /\ lastOp.removed

C7_Witness ==
    /\ lastOp.op = "set" /\ ~lastOp.had /\ lastOp.full
    /\ lastOp.evicted = {lastOp.nextBefore}
    /\ lastOp.stored.timestamp = lastOp.at /\ lastOp.at > 0

\* ------------------------------------------- cursor tracking (SpecCursor)
Confs ==
    [cursorTracking : BOOLEAN, quietMode : BOOLEAN,
     cursorTrackingMode : {CT_OFF, CT_STANDARD}]

restVars ==
    <<buf, now, cache, lastKnown, stale, watch, last, spoken, threadVars,
      typedAt, monitorVars, outputVars, pluginVars, hostVars>>

\* The host moves the caret.
hostMovesCaret ==
    /\ \E p \in Positions \ {caret} : caret' = p
    /\ UNCHANGED <<restVars, screen, conf, cursorTimer, lastCaretPosition,
                   lastAnnounced, fired>>

\* The host changes the character at one position.
hostWrites ==
    /\ \E p \in Positions :
         \E ch \in Chars \ {screen[p]} : screen' = [screen EXCEPT ![p] = ch]
    /\ UNCHANGED <<restVars, caret, conf, cursorTimer, lastCaretPosition,
                   lastAnnounced, fired>>

\* The user changes a cursor tracking setting.
setConfig ==
    /\ \E c \in Confs \ {conf} : conf' = c
    /\ UNCHANGED <<restVars, screen, caret, cursorTimer, lastCaretPosition,
                   lastAnnounced, fired>>

\* Whether a character was typed less than the grace window ago.
TypedInGrace == typedAt # -1 /\ now - typedAt < GraceWindow

\* wx.CallLater(delay, self._announceCursorPosition, obj): a pending
\* single-shot timer scheduled by the latest notification.
CallLater == [pending |-> TRUE, superseded |-> FALSE, typedInGrace |-> TypedInGrace]

\* GlobalPlugin.event_caret
\* A timer left in place by a caret notification of a terminal.
Kept(timer, isTerminalApp) ==
    [timer EXCEPT !.superseded = @ \/ (isTerminalApp /\ timer.pending)]

event_caret ==
    /\ \E isTerminalApp \in BOOLEAN :
         cursorTimer' =
             IF ~isTerminalApp \/ ~conf.cursorTracking
             THEN Kept(cursorTimer, isTerminalApp)
             ELSE IF conf.quietMode THEN Kept(cursorTimer, isTerminalApp)
             ELSE CallLater
    /\ UNCHANGED <<restVars, screen, caret, conf, lastCaretPosition,
                   lastAnnounced, fired>>

\* char.strip()
strip(char) == IF char \in {" ", "\n"} THEN "" ELSE char

speech_spaceOnly(char) == IF char = " " THEN "space" ELSE "none"

\* What _announceStandardCursor passes to ui.message for `char`.
speech(char) ==
    IF strip(char) # "" THEN "char"
    ELSE IF char = " " THEN "space"
    ELSE "none"

samePosition_never(currentPos, lastPos) == FALSE

\* currentPos == self._lastCaretPosition
samePosition(currentPos, lastPos) == currentPos = lastPos

\* GlobalPlugin._announceStandardCursor: the new _lastCaretPosition and what
\* is spoken.
_announceStandardCursor(lastPos, currentPos, char) ==
    IF samePosition(currentPos, lastPos)
    THEN [last |-> lastPos, spoke |-> "none"]
    ELSE [last |-> currentPos, spoke |-> speech(char)]

\* What a firing of the timer did: r is the result of the handler.
Firing(r, mode, fault) ==
    [done |-> TRUE, superseded |-> cursorTimer.superseded,
     char |-> screen[caret],
     read |-> (mode = CT_STANDARD /\ ~fault),
     same |-> (caret = lastCaretPosition),
     sameAnnounced |-> (caret = lastAnnounced),
     spoke |-> r.spoke,
     changed |-> (r.last # lastCaretPosition),
     typedInGrace |-> cursorTimer.typedInGrace]

\* The timer fires: GlobalPlugin._announceCursorPosition.  Nothing happens
\* in mode CT_OFF or when makeTextInfo raises.
announced ==
    \E fault \in BOOLEAN :
      \E r \in {IF conf.cursorTrackingMode = CT_STANDARD /\ ~fault
                 THEN _announceStandardCursor(lastCaretPosition, caret,
                                              screen[caret])
                 ELSE [last |-> lastCaretPosition, spoke |-> "none"]} :
        /\ lastCaretPosition' = r.last
        /\ lastAnnounced' = IF r.spoke # "none" THEN caret ELSE lastAnnounced
        /\ fired' = Firing(r, conf.cursorTrackingMode, fault)

_announceCursorPosition ==
    /\ cursorTimer.pending
    /\ cursorTimer' = [cursorTimer EXCEPT !.pending = FALSE, !.superseded = FALSE]
    /\ announced
    /\ UNCHANGED <<restVars, screen, caret, conf>>

\* The cursor handlers never look at the calculator's buffer.
InitCursor == InitView("cursor") /\ buf = <<0>>

NextCursor ==
    \/ Tick
    \/ hostMovesCaret
    \/ hostWrites
    \/ setConfig
    \/ event_caret
    \/ _announceCursorPosition
    \/ event_typedCharacter("cursor")

\* The cursor announcer: caret notifications, the debounce timer and the
\* standard tracking handler.
SpecCursor == InitCursor /\ [][NextCursor]_vars

Fired == fired.done

\* C11: an announcement is never spoken by a timer that an earlier caret
\* notification scheduled once a newer caret notification has arrived,
\* whatever quiet mode and the cursor tracking flag were when it arrived.
C11_NewerCancelsOlder ==
    (Fired /\ fired.spoke # "none") => ~fired.superseded

\* C12 as stated: a firing in standard mode that finds a non-blank,
\* non-space character at a position other than the last position actually
\* announced speaks that character.
C12_NonBlankSpoken ==
    (Fired /\ fired.read /\ strip(fired.char) # "" /\ ~fired.sameAnnounced)
        => fired.spoke = "char"

\* C12 amended: a firing in standard mode that finds a non-blank, non-space
\* character at a position other than the one the handler recorded last
\* (_lastCaretPosition) speaks that character, whether or not a character
\* was typed shortly before the caret notification.
C12_NonBlankAtNewPositionSpoken ==
    (Fired /\ fired.read /\ strip(fired.char) # "" /\ ~fired.same)
        => fired.spoke = "char"

C12_Witness ==
    /\ Fired /\ fired.read /\ strip(fired.char) # "" /\ ~fired.same
    /\ fired.typedInGrace /\ fired.spoke = "char"

\* C13: a firing on a new position whose character is empty or a line
\* terminator speaks "blank" exactly when no character was typed within
\* the grace window before the caret notification.
C13_BlankUnlessTyped ==
    (Fired /\ fired.read /\ ~fired.same /\ ~fired.sameAnnounced
           /\ fired.char \in {"", "\n"})
        => (fired.spoke = "blank" <=> ~fired.typedInGrace)

cursorSide ==
    <<buf, now, cache, lastKnown, stale, watch, last, spoken, threadVars,
      cursorVars, typedAt, outputVars, pluginVars, hostVars>>

nameTaken_never(monitors, name) == FALSE

\* any(m['name'] == name for m in self._monitors)
nameTaken(monitors, name) ==
    \E i \in 1..Len(monitors) : monitors[i].name = name

\* 1 <= top <= bottom and 1 <= left <= right
validBounds(b) == 1 <= b[1] /\ b[1] <= b[3] /\ 1 <= b[2] /\ b[2] <= b[4]

monitor(name, window_bounds, interval_ms, mode) ==
    [name |-> name, bounds |-> window_bounds, interval |-> interval_ms,
     mode |-> mode, last_check |-> 0, enabled |-> TRUE]

\* What an add_monitor call did: `rejectable` is the claim's condition.
Added(name, b, ok) ==
    [done |-> TRUE,
     rejectable |-> nameTaken(_monitors, name) \/ b[3] < b[1] \/ b[4] < b[2],
     ret |-> ok,
     same |-> /\ _monitors' = _monitors
              /\ _last_content' = _last_content
              /\ _last_announcement' = _last_announcement]

\* WindowMonitor.add_monitor, under the lock.
add_monitor(view) ==
    /\ LockFree(monitorLock)
    /\ \E name \in NamesOf(view), b \in BoundsOf(view),
          interval_ms \in IntervalsOf(view), mode \in ModesOf(view) :
         \E ok \in {~nameTaken(_monitors, name) /\ validBounds(b)} :
           /\ _monitors' =
                IF ok THEN Append(_monitors, monitor(name, b, interval_ms, mode))
                ELSE _monitors
           /\ _last_content' =
                IF ok THEN [_last_content EXCEPT ![name] = NoContent]
                ELSE _last_content
           /\ _last_announcement' =
                IF ok THEN [_last_announcement EXCEPT ![name] = 0]
                ELSE _last_announcement
           /\ unpolled' = IF ok THEN unpolled \cup {name} ELSE unpolled
           /\ added' = Added(name, b, ok)
    /\ UNCHANGED <<cursorSide, _monitoring_active, monitorLock, workers,
                   _monitor_thread, clock, saidAt, polled>>

\* Index of the first monitor called `name`, or 0.
indexOf(monitors, name) ==
    IF nameTaken(monitors, name)
    THEN CHOOSE i \in 1..Len(monitors) :
           /\ monitors[i].name = name
           /\ \A j \in 1..(i - 1) : monitors[j].name # name
    ELSE 0

pop_andAfter(monitors, i) == [j \in 1..(i - 1) |-> monitors[j]]

\* self._monitors.pop(i)
pop(monitors, i) ==
    [j \in 1..(Len(monitors) - 1) |->
        IF j < i THEN monitors[j] ELSE monitors[j + 1]]

\* WindowMonitor.remove_monitor, under the lock.
remove_monitor(view) ==
    /\ LockFree(monitorLock)
    /\ \E name \in NamesOf(view) :
         \E i \in {indexOf(_monitors, name)} :
           IF i # 0
           THEN /\ _monitors' = pop(_monitors, i)
                /\ _last_content' = [_last_content EXCEPT ![name] = Missing]
                /\ _last_announcement' =
                     [_last_announcement EXCEPT ![name] = NoTime]
                /\ unpolled' = unpolled \ {name}
           ELSE UNCHANGED <<_monitors, _last_content, _last_announcement,
                            unpolled>>
    /\ UNCHANGED <<cursorSide, _monitoring_active, monitorLock, workers,
                   _monitor_thread, clock, saidAt, polled, added>>

\* WindowMonitor.enable_monitor and disable_monitor, under the lock.
setEnabled(enabled) ==
    /\ LockFree(monitorLock)
    /\ \E name \in Names :
         \E i \in {indexOf(_monitors, name)} :
           _monitors' = IF i # 0
                        THEN [_monitors EXCEPT ![i].enabled = enabled]
                        ELSE _monitors
    /\ UNCHANGED <<cursorSide, _last_content, _last_announcement,
                   _monitoring_active, monitorLock, workers, _monitor_thread,
                   clock, unpolled, saidAt, polled, added>>

enable_monitor == setEnabled(TRUE)

disable_monitor == setEnabled(FALSE)

\* The thread that start_monitoring creates takes the first free slot.
newThread(slots) ==
    CHOOSE w \in slots :
        /\ workers[w] = "dead"
        /\ \A v \in slots : workers[v] = "dead" => w <= v

\* WindowMonitor.start_monitoring, under the lock: False when monitoring
\* is active or there is no monitor.
start_monitoring(view) ==
    /\ LockFree(monitorLock)
    /\ IF _monitoring_active \/ _monitors = <<>>
       THEN UNCHANGED <<_monitoring_active, workers, _monitor_thread>>
       ELSE /\ \E w \in WorkersOf(view) : workers[w] = "dead"
            /\ _monitoring_active' = TRUE
            /\ _monitor_thread' = newThread(WorkersOf(view))
            /\ workers' = [workers EXCEPT ![newThread(WorkersOf(view))] =
                                              "sleeping"]
    /\ UNCHANGED <<cursorSide, _monitors, _last_content, _last_announcement,
                   monitorLock, clock, unpolled, saidAt, polled, added>>

\* WindowMonitor.stop_monitoring: the flag is cleared under the lock; the
\* join that follows waits at most 2 s for the thread and changes nothing,
\* then the reference to the thread is dropped.
stop_monitoring ==
    /\ LockFree(monitorLock)
    /\ _monitoring_active' = FALSE
    /\ _monitor_thread' = 0
    /\ UNCHANGED <<cursorSide, _monitors, _last_content, _last_announcement,
                   monitorLock, workers, clock, unpolled, saidAt, polled,
                   added>>

\* _monitor_loop: `with self._lock` and the test of _monitoring_active.
monitor_enter(w) ==
    /\ workers[w] = "sleeping"
    /\ LockFree(monitorLock)
    /\ IF _monitoring_active
       THEN /\ workers' = [workers EXCEPT ![w] = "locked"]
            /\ monitorLock' = w
       ELSE /\ workers' = [workers EXCEPT ![w] = "dead"]
            /\ UNCHANGED monitorLock
    /\ UNCHANGED <<cursorSide, _monitors, _last_content, _last_announcement,
                   _monitoring_active, _monitor_thread, clock, unpolled,
                   saidAt, polled, added>>

\* self._last_content.get(name)
getContent(name) ==
    IF _last_content[name] = Missing THEN NoContent ELSE _last_content[name]

\* self._last_announcement.get(name, 0)
getAnnouncement(name) ==
    IF _last_announcement[name] = NoTime THEN 0 ELSE _last_announcement[name]

isDue_intervalOnly(m, current_time) ==
    current_time - m.last_check >= m.interval

\* _monitor_loop: the monitor is enabled and its interval has elapsed.
isDue(m, current_time) ==
    m.enabled /\ current_time - m.last_check >= m.interval

announcesChanges_always(mode) == TRUE

\* monitor['mode'] == 'changes'
announcesChanges(mode) == mode = "changes"

enoughTimePassed_always(current_time, lastTime) == TRUE

\* time_since_announcement >= self._min_announcement_interval
enoughTimePassed(current_time, lastTime) ==
    current_time - lastTime >= MIN_ANNOUNCEMENT_INTERVAL

firstContent_never(old_content) == FALSE

\* _announce_change: old_content is None
firstContent(old_content) == old_content = NoContent

\* _check_window reaches _announce_change and sets _last_announcement.
rateLimitPassed(m, current_time, content) ==
    /\ content # getContent(m.name)
    /\ announcesChanges(m.mode)
    /\ enoughTimePassed(current_time, getAnnouncement(m.name))

\* _check_window with _announce_change calls ui.message.
speaks(m, current_time, content) ==
    /\ rateLimitPassed(m, current_time, content)
    /\ ~firstContent(getContent(m.name))

newBaseline_ifAnnounced(m, current_time, content) ==
    IF /\ content # getContent(m.name)
       /\ announcesChanges(m.mode)
       /\ ~enoughTimePassed(current_time, getAnnouncement(m.name))
    THEN _last_content[m.name]
    ELSE content

\* _check_window: self._last_content[name] = content, before the mode and
\* the rate limit are looked at.
newBaseline(m, current_time, content) == content

\* The monitors that one iteration of the loop checks.
checked(current_time) ==
    {i \in 1..Len(_monitors) : isDue(_monitors[i], current_time)}

checkedNames(current_time) ==
    {_monitors[i].name : i \in checked(current_time)}

monitorOf(name) == _monitors[indexOf(_monitors, name)]

\* The time since the last ui.message for a region, against the minimum
\* interval.
sinceSaid(current_time, said) ==
    IF said = NoTime THEN "none"
    ELSE IF current_time - said >= MIN_ANNOUNCEMENT_INTERVAL THEN "enough"
    ELSE "short"

swallowed_never(fault) == FALSE

\* _check_window: `except Exception: pass` around the whole body.
swallowed(fault) == TRUE

\* The _check_window call on monitor i raises into the loop.
aborts(faults, i) ==
    faults[_monitors[i].name] = "check" /\ ~swallowed("check")

\* The monitors on which the loop calls _check_window: the due ones, up to
\* the first call that raises into the loop.
reached(current_time, faults) ==
    {i \in checked(current_time) :
        \A j \in checked(current_time) : j < i => ~aborts(faults, j)}

\* The names whose _check_window call ran to its end.
ranNames(current_time, faults) ==
    {_monitors[i].name : i \in {j \in reached(current_time, faults) :
                                    faults[_monitors[j].name] # "check"}}

\* _extract_window_content: "" when the extraction raises.
extracted(contents, faults, name) ==
    IF faults[name] = "extract" THEN "" ELSE contents[name]

\* ui.message(message): the sink runs on the thread that makes the call.
direct(thread) == thread

\* The thread on which _announce_change reaches ui.message when it is
\* called on `thread`.
_announce_change(thread) == direct(thread)

\* What the loop did with the due monitor m: `ran` tells whether its
\* _check_window call ran to its end.
Poll(m, current_time, content, faults, ran, w) ==
    [done |-> TRUE,
     mode |-> m.mode,
     first |-> m.name \in unpolled,
     differs |-> content # getContent(m.name),
     said |-> ran /\ speaks(m, current_time, content),
     stored |-> _last_content'[m.name] = content,
     gap |-> sinceSaid(current_time, saidAt[m.name]),
     active |-> _monitoring_active,
     failed |-> faults[m.name] # "none",
     otherFailed |-> \E n \in checkedNames(current_time) \ {m.name} :
                        faults[n] # "none",
     called |-> indexOf(_monitors, m.name) \in reached(current_time, faults),
     looping |-> workers'[w] = "sleeping",
     context |-> IF ran /\ speaks(m, current_time, content)
                 THEN _announce_change("worker") ELSE "none",
     registered |-> \E i \in 1..Len(_monitors) : _monitors[i] = m,
     enabled |-> m.enabled,
     elapsed |-> current_time - m.last_check >= m.interval,
     limited |-> current_time - getAnnouncement(m.name)
                     < MIN_ANNOUNCEMENT_INTERVAL]

\* _monitor_loop, the rest of the locked block: _check_window on every due
\* monitor with the time read once, then the lock is released and the
\* thread sleeps.  contents[n] is what the window of n holds.  A call that
\* raises into the loop ends the thread.
monitor_poll(view, w) ==
    /\ workers[w] = "locked"
    /\ ~inRead("worker", w)
    /\ monitorLock' = 0
    /\ \E contents \in [Names -> ContentsOf(view)],
          faults \in [Names -> FaultsOf(view)] :
         \E current_time \in {time_ms(clock)} :
           /\ workers' =
                [workers EXCEPT ![w] =
                   IF \E i \in reached(current_time, faults) : aborts(faults, i)
                   THEN "dead" ELSE "sleeping"]
           /\ _monitors' =
                [i \in 1..Len(_monitors) |->
                   IF i \in reached(current_time, faults) /\ ~aborts(faults, i)
                   THEN [_monitors[i] EXCEPT !.last_check = current_time]
                   ELSE _monitors[i]]
           /\ _last_content' =
                [n \in Names |->
                   IF n \in ranNames(current_time, faults)
                   THEN newBaseline(monitorOf(n), current_time,
                                    extracted(contents, faults, n))
                   ELSE _last_content[n]]
           /\ _last_announcement' =
                [n \in Names |->
                   IF /\ n \in ranNames(current_time, faults)
                      /\ rateLimitPassed(monitorOf(n), current_time,
                                         extracted(contents, faults, n))
                   THEN current_time ELSE _last_announcement[n]]
           /\ saidAt' =
                [n \in Names |->
                   IF /\ n \in ranNames(current_time, faults)
                      /\ speaks(monitorOf(n), current_time,
                                extracted(contents, faults, n))
                   THEN current_time ELSE saidAt[n]]
           /\ unpolled' = unpolled \ ranNames(current_time, faults)
           /\ IF checkedNames(current_time) = {}
              THEN polled' = polled
              ELSE \E n \in checkedNames(current_time) :
                     polled' = Poll(monitorOf(n), current_time,
                                    extracted(contents, faults, n), faults,
                                    n \in ranNames(current_time, faults), w)
    /\ UNCHANGED <<cursorSide, _monitoring_active, _monitor_thread, clock,
                   added>>

\* The monitor's clock advances.
TickClock ==
    /\ clock < MaxClock
    /\ clock' = clock + 1
    /\ UNCHANGED <<cursorSide, _monitors, _last_content, _last_announcement,
                   _monitoring_active, monitorLock, workers, _monitor_thread,
                   unpolled, saidAt, polled, added>>

InitMonitor == InitView("monitor") /\ buf = <<0>>

\* The registrations: every argument of add_monitor, and the calls that
\* remove, enable and disable, while one thread polls.
NextRegions ==
    \/ add_monitor("regions")
    \/ remove_monitor("regions")
    \/ enable_monitor
    \/ disable_monitor
    \/ start_monitoring("regions")
    \/ stop_monitoring
    \/ monitor_enter(1)
    \/ monitor_poll("regions", 1)

SpecRegions == InitMonitor /\ [][NextRegions]_vars

\* C15: add_monitor returns False and changes no registration when the
\* name is already registered or bottom < top or right < left, and no two
\* registrations ever share a name.
C15_RejectsAndNamesUnique ==
    /\ (added.done /\ added.rejectable) => (~added.ret /\ added.same)
    /\ \A i, j \in 1..Len(_monitors) :
         i # j => _monitors[i].name # _monitors[j].name

C15_Witness ==
    /\ added.done /\ added.rejectable /\ ~added.ret
    /\ Len(_monitors) = 2

\* The polls: window contents that change while the clock advances, for
\* registrations that are added and removed.
NextPoll ==
    \/ add_monitor("poll")
    \/ remove_monitor("poll")
    \/ start_monitoring("poll")
    \/ stop_monitoring
    \/ monitor_enter(1)
    \/ monitor_poll("poll", 1)
    \/ TickClock

SpecPoll == InitMonitor /\ [][NextPoll]_vars

\* C16: a poll of a region registered with mode "silent" never calls
\* ui.message, and stores the content as the baseline whenever it differs.
C16_SilentNeverAnnounces ==
    (polled.done /\ polled.mode = "silent")
        => (~polled.said /\ (polled.differs => polled.stored))

C16_Witness ==
    /\ polled.done /\ polled.mode = "silent" /\ ~polled.first
    /\ polled.differs /\ polled.stored /\ ~polled.said

\* C17: the first poll of a region after it was added, also when it was
\* removed and added again, stores the baseline and announces nothing.
C17_FirstPollOnlyBaseline ==
    (polled.done /\ polled.first) => (~polled.said /\ polled.stored)

C17_Witness ==
    /\ polled.done /\ polled.first /\ polled.mode = "changes"
    /\ polled.gap = "enough" /\ ~polled.said /\ polled.stored

\* C18: an announcement for a region is never made less than the minimum
\* interval after the previous announcement for that region, whatever was
\* announced for the other regions.
C18_AnnouncementsApart ==
    (polled.done /\ polled.said) => polled.gap # "short"

C18_Witness ==
    /\ polled.done /\ polled.said /\ polled.gap = "enough"
    /\ \A n \in Names : saidAt[n] = time_ms(clock)

\* C19: a poll of a mode "changes" region whose content differs from the
\* established baseline is announced whenever the minimum interval has
\* elapsed since the last announcement made for the region, and when none
\* was made yet.
C19_ChangeAnnouncedWhenElapsed ==
    (polled.done /\ polled.mode = "changes" /\ ~polled.first
                 /\ polled.differs /\ polled.gap # "short")
        => polled.said

\* The threads: start, stop and the polling loops around one registration.
NextStop ==
    \/ add_monitor("stop")
    \/ remove_monitor("stop")
    \/ start_monitoring("stop")
    \/ stop_monitoring
    \/ \E w \in Workers : monitor_enter(w)
    \/ \E w \in Workers : monitor_poll("stop", w)

SpecStop == InitMonitor /\ [][NextStop]_vars

\* C20: once stop_monitoring has cleared the flag, which it does before it
\* returns, no _check_window call is made until start_monitoring is called
\* again, however the polling threads interleave with the call.
C20_NoPollAfterStop == polled.done => polled.active

C20_Witness ==
    /\ polled.done /\ ~_monitoring_active /\ _monitor_thread = 0
    /\ \A w \in Workers : workers[w] = "dead"

\* C21: whatever start_monitoring and stop_monitoring calls were made, at
\* most one thread runs _monitor_loop.
C21_AtMostOneWorker ==
    Cardinality({w \in Workers : workers[w] # "dead"}) <= 1

\* The failures: polls whose extraction or _check_window call fails, for
\* registrations that are added and removed.
NextFaults ==
    \/ add_monitor("faults")
    \/ remove_monitor("faults")
    \/ start_monitoring("faults")
    \/ stop_monitoring
    \/ monitor_enter(1)
    \/ monitor_poll("faults", 1)

SpecFaults == InitMonitor /\ [][NextFaults]_vars

\* C22: when the poll of a region fails in a cycle, the thread keeps
\* looping and _check_window is still called on every other enabled, due
\* region in that cycle.
C22_FailureIsPerRegion ==
    /\ (polled.done /\ polled.failed) => polled.looping
    /\ (polled.done /\ polled.otherFailed)
          => (polled.called /\ polled.looping)

C22_Witness ==
    /\ polled.done /\ polled.otherFailed /\ ~polled.failed
    /\ polled.called /\ ~polled.first /\ polled.differs /\ polled.stored
    /\ polled.looping

\* C39: a poll in which the text of the region cannot be extracted calls
\* no ui.message and leaves the baseline of the region as it was.
C39_FailedPollChangesNothing ==
    (polled.done /\ polled.failed)
        => (~polled.said /\ ~(polled.differs /\ polled.stored))

C23_SinkCalledInForeground ==
    (polled.done /\ polled.said) => polled.context = "foreground"

\* The registrations enabled and disabled while one thread polls and the
\* clock advances.
NextEnabled ==
    \/ add_monitor("enabled")
    \/ remove_monitor("enabled")
    \/ enable_monitor
    \/ disable_monitor
    \/ start_monitoring("enabled")
    \/ monitor_enter(1)
    \/ monitor_poll("enabled", 1)
    \/ TickClock

SpecEnabled == InitMonitor /\ [][NextEnabled]_vars

\* The region called `name` is registered and enabled.
pollable(monitors, name) ==
    \E i \in 1..Len(monitors) :
        monitors[i].name = name /\ monitors[i].enabled

\* A step that begins and ends with `name` not pollable, and is not the
\* remove_monitor call that drops it, leaves its baseline, its last
\* announcement and what was said for it alone.
StaysQuiet ==
    \A name \in Names :
        (/\ ~pollable(_monitors, name) /\ ~pollable(_monitors', name)
         /\ nameTaken(_monitors', name) = nameTaken(_monitors, name))
            => /\ getContent(name)' = getContent(name)
               /\ getAnnouncement(name)' = getAnnouncement(name)
               /\ saidAt'[name] = saidAt[name]

\* C33: the thread polls a region at a tick only if the region is
\* registered and enabled at that tick and its interval has elapsed since
\* its last poll; while a region is disabled or removed, no step extracts
\* it, updates its baseline or announces it.
C33_PollsOnlyEnabledAndDue ==
    /\ [](polled.done
             => (polled.registered /\ polled.enabled /\ polled.elapsed))
    /\ [][StaysQuiet]_vars

\* A region was polled, then disabled, and the thread has since run its
\* loop on the other region at a later tick.
C33_Witness ==
    /\ polled.done /\ polled.enabled
    /\ Len(_monitors) = 2
    /\ ~_monitors[1].enabled /\ _monitors[1].last_check < time_ms(clock)
    /\ _last_content[_monitors[1].name] = "x"
    /\ _monitors[2].last_check = time_ms(clock)
    /\ clock > 0

\* What the monitor holds for the region called `name`: its registration
\* with its last_check, its baseline and its last announcement time.
regionState(monitors, content, announcement, name) ==
    [registration |-> IF nameTaken(monitors, name)
                      THEN monitors[indexOf(monitors, name)] ELSE "<none>",
     baseline |-> content[name],
     announced |-> announcement[name]]

\* The regions for which a step changes what the monitor holds.
changedNames ==
    {name \in Names :
        regionState(_monitors', _last_content', _last_announcement', name)
            # regionState(_monitors, _last_content, _last_announcement, name)}

\* A locked iteration of the loop changes the regions that are due and no
\* other; a call that adds, removes, enables or disables changes one
\* region at most; a new registration starts from no baseline.
OnlyOwnRegion ==
    /\ monitorLock # 0 => changedNames \subseteq checkedNames(time_ms(clock))
    /\ monitorLock = 0 => Cardinality(changedNames) <= 1
    /\ \A name \in Names :
          (~nameTaken(_monitors, name) /\ nameTaken(_monitors', name))
              => /\ _last_content'[name] = NoContent
                 /\ _last_announcement'[name] = 0

\* Every registration has a baseline entry and an announcement time under
\* its own name, and no entry outlives its registration.
OwnBaseline ==
    \A name \in Names :
        /\ nameTaken(_monitors, name) <=> _last_content[name] # Missing
        /\ nameTaken(_monitors, name) <=> _last_announcement[name] # NoTime

\* C34: polling, announcing, enabling, disabling or removing one region
\* leaves the baseline, the last_check and the last announcement time of
\* every other region unchanged, and every registration has its own
\* baseline.
C34_RegionsIndependent == []OwnBaseline /\ [][OnlyOwnRegion]_vars

\* Two regions hold different baselines, last_check times and
\* announcement times, and one of them is disabled.
C34_Witness ==
    /\ Len(_monitors) = 2
    /\ _monitors[1].enabled /\ ~_monitors[2].enabled
    /\ _monitors[1].last_check > _monitors[2].last_check
    /\ _monitors[2].last_check > 0
    /\ _last_content[_monitors[1].name] = "x"
    /\ _last_content[_monitors[2].name] = ""
    /\ _last_announcement[_monitors[1].name]
          > _last_announcement[_monitors[2].name]

\* ---------------------------------------------------------- TextDiffer
outputRest ==
    <<buf, now, cache, lastKnown, stale, watch, last, spoken, threadVars,
      cursorVars, typedAt, pluginVars, hostVars, _monitors, _last_content, _last_announcement,
      _monitoring_active, monitorLock, workers, _monitor_thread, unpolled,
      saidAt, polled, added>>

\* The snapshots: texts of letters and line breaks.
Texts == UNION {[1..n -> {"a", ESC, "\n"}] : n \in 0..MaxTextLen}

\* oldText is a strict prefix of newText.
startswith(newText, oldText) ==
    /\ Len(oldText) < Len(newText)
    /\ SubSeq(newText, 1, Len(oldText)) = oldText

\* text.rfind("\n"), 1-based: the place of the last line break, or 0.
rfind(text) ==
    IF \E i \in 1..Len(text) : text[i] = "\n"
    THEN CHOOSE i \in 1..Len(text) :
           /\ text[i] = "\n"
           /\ \A j \in (i + 1)..Len(text) : text[j] # "\n"
    ELSE 0

\* The final line of text.
lastLine(text) == SubSeq(text, rfind(text) + 1, Len(text))

\* Only the final line differs: both texts have the same lines before it,
\* and there is at least one.
onlyLastLineDiffers(oldText, newText) ==
    /\ rfind(oldText) > 0
    /\ rfind(newText) = rfind(oldText)
    /\ SubSeq(newText, 1, rfind(newText)) = SubSeq(oldText, 1, rfind(oldText))

result(kind, payload) == [kind |-> kind, payload |-> payload]

update_lastLineFirst(oldText, newText) ==
    IF oldText = NoBaseline THEN result("INITIAL", <<>>)
    ELSE IF newText = oldText THEN result("UNCHANGED", <<>>)
    ELSE IF onlyLastLineDiffers(oldText, newText)
    THEN result("LAST_LINE_UPDATED", lastLine(newText))
    ELSE IF startswith(newText, oldText)
    THEN result("APPENDED", SubSeq(newText, Len(oldText) + 1, Len(newText)))
    ELSE result("CHANGED", <<>>)

\* TextDiffer.update: the classification, in priority order.
update(oldText, newText) ==
    IF oldText = NoBaseline THEN result("INITIAL", <<>>)
    ELSE IF newText = oldText THEN result("UNCHANGED", <<>>)
    ELSE IF startswith(newText, oldText)
    THEN result("APPENDED", SubSeq(newText, Len(oldText) + 1, Len(newText)))
    ELSE IF onlyLastLineDiffers(oldText, newText)
    THEN result("LAST_LINE_UPDATED", lastLine(newText))
    ELSE result("CHANGED", <<>>)

Diffed(newText, r) ==
    [done |-> TRUE, old |-> _last_text, new |-> newText, kind |-> r.kind,
     payload |-> r.payload, stored |-> _last_text' = newText]

\* TextDiffer.update(newText): classify, then newText is the baseline.
differ_update ==
    /\ \E newText \in Texts :
         /\ _last_text' = newText
         /\ diffed' = Diffed(newText, update(_last_text, newText))
    /\ UNCHANGED <<outputRest, clock, _pending, flushTimer, outConf, flushed,
                   fed>>

\* TextDiffer.reset(): the baseline is dropped.
differ_reset ==
    /\ _last_text' = NoBaseline
    /\ UNCHANGED <<outputRest, clock, diffed, _pending, flushTimer, outConf,
                   flushed, fed>>

NextDiffer == differ_update \/ differ_reset

SpecDiffer == InitMonitor /\ [][NextDiffer]_vars

\* The number of line breaks of a text.
RECURSIVE breaks(_)
breaks(text) ==
    IF text = <<>> THEN 0
    ELSE (IF Head(text) = "\n" THEN 1 ELSE 0) + breaks(Tail(text))

\* The texts agree up to and including place n.
AgreeUpTo(a, b, n) ==
    Len(a) >= n /\ Len(b) >= n /\ \A i \in 1..n : a[i] = b[i]

\* The texts have the same number of lines and differ in the final one
\* only; `least` is the least number of lines for which this counts.
FinalLineOnly(a, b, least) ==
    /\ breaks(a) = breaks(b)
    /\ breaks(a) + 1 >= least
    /\ AgreeUpTo(a, b, rfind(a))
    /\ rfind(a) = rfind(b)

\* The classification of the last update call is the one that the
\* priority order gives, with its payload, and newText is the baseline.
Classified(d, least) ==
    /\ d.stored
    /\ IF d.old = NoBaseline THEN d.kind = "INITIAL" /\ d.payload = <<>>
       ELSE IF d.old = d.new THEN d.kind = "UNCHANGED" /\ d.payload = <<>>
       ELSE IF AgreeUpTo(d.old, d.new, Len(d.old))
       THEN d.kind = "APPENDED" /\ d.old \o d.payload = d.new
       ELSE IF FinalLineOnly(d.old, d.new, least)
       THEN /\ d.kind = "LAST_LINE_UPDATED"
            /\ SubSeq(d.new, 1, rfind(d.new)) \o d.payload = d.new
       ELSE d.kind = "CHANGED" /\ d.payload = <<>>

\* C24 as stated: update classifies in the priority order INITIAL,
\* UNCHANGED, APPENDED with the added suffix, LAST_LINE_UPDATED with the
\* new final line whenever the texts have the same number of lines and
\* differ in the final one only, else CHANGED; newText becomes the baseline.
C24_Classification == diffed.done => Classified(diffed, 1)

\* C24 amended: the same, where LAST_LINE_UPDATED needs texts of at least
\* two lines; a changed text of a single line is CHANGED.
C24_ClassificationOfLines == diffed.done => Classified(diffed, 2)

C24_Witness ==
    /\ diffed.done /\ diffed.kind = "LAST_LINE_UPDATED"
    /\ diffed.payload # <<>> /\ _last_text = diffed.new

\* --------------------------------------------------- NewOutputAnnouncer
OutConfs ==
    [quietMode : BOOLEAN, announceNewOutput : BOOLEAN,
     stripAnsiInOutput : BOOLEAN]

\* The settings change.
setOutputConfig ==
    /\ \E c \in OutConfs \ {outConf} : outConf' = c
    /\ flushed' = NoFlush
    /\ fed' = NoFeed
    /\ UNCHANGED <<outputRest, clock, _last_text, diffed, _pending, flushTimer>>

\* The snapshots fed to the announcer.
Snapshots == {text \in Texts : Len(text) <= MaxSnapshotLen}

\* An event that leads to speech.
qualifies(kind) == kind \in {"APPENDED", "LAST_LINE_UPDATED"}

accumulate_replace(pending, r) ==
    IF qualifies(r.kind) THEN r.payload ELSE pending

\* An append is added to the pending text, a redrawn final line replaces
\* it, anything else leaves it alone.
accumulate(pending, r) ==
    IF r.kind = "APPENDED" THEN pending \o r.payload
    ELSE IF r.kind = "LAST_LINE_UPDATED" THEN r.payload
    ELSE pending

\* The timer after a feed: a qualifying event cancels it and schedules a
\* new one, a coalesce delay from now.
schedule(timer, r) ==
    IF qualifies(r.kind)
    THEN [pending |-> TRUE, due |-> clock + newOutputCoalesceMs,
          burst |-> IF timer.appendedOnly /\ r.kind = "APPENDED"
                    THEN timer.burst \o r.payload ELSE <<>>,
          appendedOnly |-> timer.appendedOnly /\ r.kind = "APPENDED"]
    ELSE timer

Fed(r) ==
    [done |-> TRUE, kind |-> r.kind,
     silent |-> _pending' = _pending /\ flushTimer' = flushTimer]

\* NewOutputAnnouncer.feed(text): the snapshot goes through the differ.
feedResult(text, r) ==
    /\ Len(accumulate(_pending, r)) <= MaxPending
    /\ _last_text' = text
    /\ _pending' = accumulate(_pending, r)
    /\ flushTimer' = schedule(flushTimer, r)
    /\ fed' = Fed(r)

feed ==
    /\ \E text \in Snapshots : feedResult(text, update(_last_text, text))
    /\ flushed' = NoFlush
    /\ UNCHANGED <<outputRest, clock, diffed, outConf>>

\* NewOutputAnnouncer.reset(): the next feed is a fresh baseline.
announcer_reset ==
    /\ _last_text' = NoBaseline
    /\ flushed' = NoFlush
    /\ fed' = NoFeed
    /\ UNCHANGED <<outputRest, clock, diffed, _pending, flushTimer, outConf>>

suppressed_quietOnly(c) == c.quietMode

\* Quiet mode is on or the feature is off.
suppressed(c) == c.quietMode \/ ~c.announceNewOutput

\* The text without its escape sequences.
strip_ansi(text) == SelectSeq(text, LAMBDA piece : piece # ESC)

\* The number of lines of a text; a final line break ends the last line.
lineCount(text) ==
    breaks(text) + (IF text # <<>> /\ text[Len(text)] # "\n" THEN 1 ELSE 0)

\* "N new lines".
summary(n) == <<ToString(n), " new lines">>

\* What the sink is given for a pending text.
render(c, text) ==
    IF lineCount(IF c.stripAnsiInOutput THEN strip_ansi(text) ELSE text)
         > newOutputMaxLines
    THEN summary(lineCount(IF c.stripAnsiInOutput THEN strip_ansi(text)
                           ELSE text))
    ELSE IF c.stripAnsiInOutput THEN strip_ansi(text) ELSE text

Flushed(quiet) ==
    [done |-> TRUE, quietMode |-> outConf.quietMode,
     announceNewOutput |-> outConf.announceNewOutput,
     calls |-> IF quiet THEN 0 ELSE 1,
     text |-> IF quiet THEN <<>> ELSE render(outConf, _pending),
     burst |-> flushTimer.burst, appendedOnly |-> flushTimer.appendedOnly,
     waited |-> clock - (flushTimer.due - newOutputCoalesceMs),
     stripAnsiInOutput |-> outConf.stripAnsiInOutput,
     cleared |-> _pending' = <<>> /\ ~flushTimer'.pending]

\* The coalesce timer fires: the pending text is dropped in quiet mode or
\* with the feature off, else it is sent to the sink once; it is cleared.
flush ==
    /\ flushTimer.pending
    /\ clock >= flushTimer.due
    /\ _pending' = <<>>
    /\ flushTimer' = NoFlushTimer
    /\ flushed' = Flushed(suppressed(outConf))
    /\ fed' = NoFeed
    /\ UNCHANGED <<outputRest, clock, _last_text, diffed, outConf>>

NextAnnouncer ==
    \/ feed
    \/ announcer_reset
    \/ setOutputConfig
    \/ flush
    \/ TickClock

SpecAnnouncer == InitMonitor /\ [][NextAnnouncer]_vars

\* The timer fired in quiet mode or with the feature off.
FiredQuiet == flushed.quietMode \/ ~flushed.announceNewOutput

SilentKinds ==
    fed.done /\ fed.kind \in {"INITIAL", "UNCHANGED", "CHANGED"} => fed.silent

\* C25 as stated: a burst of appends, each within the coalesce delay of the
\* one before, gives exactly one sink call, no sooner than a coalesce delay
\* after the last feed, with the concatenation of the appended payloads;
\* INITIAL, UNCHANGED and CHANGED feeds lead to no speech.
C25_BurstSpokenOnce ==
    /\ SilentKinds
    /\ flushed.done /\ flushed.appendedOnly =>
         /\ flushed.calls = 1
         /\ flushed.waited >= newOutputCoalesceMs
         /\ flushed.text = flushed.burst

\* C25 amended: unless quiet mode is on or the feature is off when the
\* timer fires, the burst gives exactly one sink call, no sooner than a
\* coalesce delay after the last feed; its text is the concatenation of the
\* appended payloads, without escape sequences when stripping is on, or
\* the "N new lines" summary when that has more lines than the maximum.
C25_BurstSpokenOnceUnlessQuiet ==
    /\ SilentKinds
    /\ flushed.done /\ flushed.appendedOnly /\ ~FiredQuiet =>
         /\ flushed.calls = 1
         /\ flushed.waited >= newOutputCoalesceMs
         /\ flushed.text =
              render([stripAnsiInOutput |-> flushed.stripAnsiInOutput],
                     flushed.burst)

C25_Witness ==
    /\ flushed.done /\ flushed.appendedOnly /\ ~FiredQuiet
    /\ flushed.calls = 1 /\ Len(flushed.burst) = 2
    /\ flushed.text = flushed.burst

\* C26: a timer that fires in quiet mode or with the feature off drops the
\* pending text without a sink call; any other firing calls the sink
\* exactly once; either way nothing is pending afterwards.
C26_FlushCallsOnceOrDrops ==
    flushed.done =>
        /\ flushed.cleared
        /\ flushed.calls = (IF FiredQuiet THEN 0 ELSE 1)

C26_Witness ==
    /\ flushed.done /\ ~flushed.announceNewOutput /\ flushed.calls = 0
    /\ flushed.burst # <<>> /\ _pending = <<>>

\* -------------------------------------------------------- OperationQueue
pluginRest ==
    <<buf, now, cache, lastKnown, stale, watch, last, spoken, threadVars,
      cursorVars, typedAt, monitorVars, outputVars, hostVars>>

\* thread.is_alive(): started and not yet ended.
is_alive(t) == ops[t] \in {"running", "finishing"}

Alive == {t \in OpIds : is_alive(t)}

\* OperationQueue.is_busy()
is_busy == _active_operation # 0 /\ is_alive(_active_operation)

\* start_operation, first step: a completed thread is dropped.
cleaned == IF is_busy THEN _active_operation ELSE 0

Started(t, accepted) ==
    [done |-> TRUE, thread |-> t, result |-> accepted, alive |-> Alive,
     ran |-> ops'[t] # "new"]

\* OperationQueue.start_operation(thread): refused while the queue holds a
\* live thread; else the queue holds the thread and the thread starts.
start_operation(t) ==
    IF cleaned # 0
    THEN /\ started' = Started(t, FALSE)
         /\ UNCHANGED <<_active_operation, ops>>
    ELSE /\ _active_operation' = t
         /\ ops' = [ops EXCEPT ![t] = "running"]
         /\ started' = Started(t, TRUE)

\* script_copyRectangularSelection with more than 100 rows: nothing is
\* started while the queue is busy; else a new thread goes to the queue.
script_copyRectangularSelection_large ==
    /\ ~inRead("foreground", 0)
    /\ \E t \in OpIds :
         /\ ops[t] = "new"
         /\ IF is_busy
            THEN UNCHANGED queueVars
            ELSE start_operation(t)
    /\ UNCHANGED <<pluginRest, tabVars, windowVars>>

\* OperationQueue.clear(): the reference is dropped, the thread goes on.
queue_clear == _active_operation' = 0

\* _copyRectangularSelectionBackground: the copy is done, or it failed;
\* the thread clears the queue in its finally block.
_copyRectangularSelectionBackground(t) ==
    /\ ops[t] = "running"
    /\ ~inRead("copy", t)
    /\ queue_clear
    /\ ops' = [ops EXCEPT ![t] = "finishing"]
    /\ UNCHANGED <<pluginRest, started, tabVars, windowVars>>

\* The thread returns from its target and ends.
thread_exit(t) ==
    /\ ops[t] = "finishing"
    /\ ops' = [ops EXCEPT ![t] = "dead"]
    /\ UNCHANGED <<pluginRest, _active_operation, started, tabVars, windowVars>>

NextQueue ==
    \/ script_copyRectangularSelection_large
    \/ \E t \in OpIds : _copyRectangularSelectionBackground(t)
    \/ \E t \in OpIds : thread_exit(t)

SpecQueue == InitMonitor /\ [][NextQueue]_vars

\* C27: at most one thread started through the queue is alive, and
\* start_operation refuses, and starts nothing, while a thread started
\* before is alive.
C27_OneOperationAlive ==
    /\ Cardinality(Alive) <= 1
    /\ started.done /\ started.alive # {} =>
         ~started.result /\ ~started.ran

\* ------------------------------------------------------------ TabManager
\* What the managers show for the current tab.
Visible ==
    [bookmarks |-> _tab_bookmarks[_current_tab_id], matches |-> _matches,
     history |-> _history]

\* BookmarkManager._get_bookmark_dict(): the bookmarks of the current tab.
_get_bookmark_dict == _tab_bookmarks[_current_tab_id]

\* BookmarkManager.set_bookmark(name)
set_bookmark(name) ==
    /\ _tab_bookmarks' =
         [_tab_bookmarks EXCEPT
            ![_current_tab_id] = _get_bookmark_dict \cup {name}]
    /\ owned' = Owned([owned[_current_tab_id] EXCEPT
                          !.bookmarks = @ \cup {name}])
    /\ UNCHANGED <<pluginRest, queueVars, windowVars, _current_tab_id,
                   _matches, _history>>

\* BookmarkManager.remove_bookmark(name)
remove_bookmark(name) ==
    /\ name \in _get_bookmark_dict
    /\ _tab_bookmarks' =
         [_tab_bookmarks EXCEPT
            ![_current_tab_id] = _get_bookmark_dict \ {name}]
    /\ owned' = Owned([owned[_current_tab_id] EXCEPT
                          !.bookmarks = @ \ {name}])
    /\ UNCHANGED <<pluginRest, queueVars, windowVars, _current_tab_id,
                   _matches, _history>>

\* OutputSearchManager.search(pattern): the lines of the terminal that
\* match are kept in the manager's own list.
search ==
    /\ \E found \in SUBSET MatchLines :
         /\ _matches' = found
         /\ owned' = Owned([owned[_current_tab_id] EXCEPT !.matches = found])
    /\ UNCHANGED <<pluginRest, queueVars, windowVars, _current_tab_id,
                   _tab_bookmarks, _history>>

\* The history with one more command; a repeat of the last one is left out.
stored(history, command) ==
    IF history # <<>> /\ history[Len(history)] = command THEN history
    ELSE Append(history, command)

\* CommandHistoryManager.detect_and_store_commands(): a command found on
\* a new line goes to the manager's own list.
detect_and_store_commands ==
    /\ \E command \in Commands :
         /\ Len(stored(_history, command)) <= MaxHistory
         /\ _history' = stored(_history, command)
         /\ owned' = Owned([owned[_current_tab_id] EXCEPT
                               !.history = stored(_history, command)])
    /\ UNCHANGED <<pluginRest, queueVars, windowVars, _current_tab_id,
                   _tab_bookmarks, _matches>>

NextTabs ==
    \/ \E tab \in Tabs : event_gainFocus(tab)
    \/ \E name \in BookmarkNames : set_bookmark(name)
    \/ \E name \in BookmarkNames : remove_bookmark(name)
    \/ search
    \/ detect_and_store_commands

SpecTabs == InitMonitor /\ [][NextTabs]_vars

\* C28: the bookmarks, search matches and command history shown while a
\* tab is current are the ones recorded while that tab was current: those
\* of another tab are not shown, and its own are there again, unchanged,
\* when it is current again.
C28_TabIsolation == Visible = owned[_current_tab_id]

\* ------------------------------------------------------ window definition
Pressed(script, valid, failed, said) ==
    [done |-> TRUE, script |-> script, n |-> pressed.n + 1,
     was |-> "_windowStartSet" \in attrs /\ _windowStartSet,
     valid |-> valid, failed |-> failed, said |-> said]

\* The plugin object has the attribute: __init__ or a script has set it.
hasattr(name) == name \in attrs

\* The except branch of script_setWindow.
unableToSet(valid, failed) ==
    /\ attrs' = attrs \cup {"_windowStartSet"}
    /\ _windowStartSet' = FALSE
    /\ pressed' = Pressed("setWindow", valid, failed, "Unable to set window")
    /\ UNCHANGED <<_windowStartBookmark, windowEnabled>>

\* script_setWindow in a terminal. Without a review position (-1) nothing
\* changes. Reading an attribute that the object does not have raises, as
\* does a start bookmark that is no longer valid (raises); both end in the
\* except branch. Else the first press records the start and the second
\* one enables the window.
script_setWindow(reviewPos, raises) ==
    /\ pressed.n < MaxPresses
    /\ IF reviewPos = -1
       THEN /\ pressed' = Pressed("setWindow", FALSE, FALSE,
                                  "Unable to set window")
            /\ UNCHANGED <<attrs, _windowStartSet, _windowStartBookmark,
                           windowEnabled>>
       ELSE IF ~hasattr("_windowStartSet") THEN unableToSet(TRUE, TRUE)
       ELSE IF ~_windowStartSet
       THEN /\ _windowStartBookmark' = reviewPos
            /\ _windowStartSet' = TRUE
            /\ pressed' = Pressed("setWindow", TRUE, FALSE, "Window start set")
            /\ UNCHANGED <<attrs, windowEnabled>>
       ELSE IF raises THEN unableToSet(TRUE, TRUE)
       ELSE /\ windowEnabled' = TRUE
            /\ _windowStartSet' = FALSE
            /\ pressed' = Pressed("setWindow", TRUE, FALSE, "Window defined")
            /\ UNCHANGED <<attrs, _windowStartBookmark>>
    /\ UNCHANGED <<pluginRest, queueVars, tabVars>>

\* script_clearWindow in a terminal.
script_clearWindow ==
    /\ pressed.n < MaxPresses
    /\ windowEnabled' = FALSE
    /\ attrs' = attrs \cup {"_windowStartSet"}
    /\ _windowStartSet' = FALSE
    /\ pressed' = Pressed("clearWindow", FALSE, FALSE, "Window cleared")
    /\ UNCHANGED <<pluginRest, queueVars, tabVars, _windowStartBookmark>>

NextWindow ==
    \/ \E reviewPos \in Positions \cup {-1}, raises \in BOOLEAN :
         script_setWindow(reviewPos, raises)
    \/ script_clearWindow

SpecWindow == InitMonitor /\ [][NextWindow]_vars

StartNotSet == "_windowStartSet" \in attrs /\ ~_windowStartSet

\* C29: the first script_setWindow press with a review position on a new
\* plugin records the start of the window; a press with the start
\* recorded enables the window; clearing the window and a failure leave
\* the start not set.
C29_TwoStepWindow ==
    /\ pressed.done /\ pressed.script = "setWindow" /\ pressed.valid =>
         /\ pressed.n = 1 =>
              pressed.said = "Window start set" /\ _windowStartSet
         /\ pressed.was /\ ~pressed.failed =>
              pressed.said = "Window defined" /\ windowEnabled /\ StartNotSet
         /\ pressed.failed => StartNotSet
    /\ pressed.done /\ pressed.script = "clearWindow" => StartNotSet

\* ------------------------------------------- what a successful call leaves
Answered ==
    last.path \in {"cache", "incremental", "full"} /\ last.res # SENTINEL

\* C30 as stated: a calculate call that returns a position other than
\* (0, 0), from the cache, the incremental path or the full walk, leaves
\* the cache holding that position for the token and the last-known
\* position equal to (token, row, col).
C30_AnswerIsStored == Answered => last.held /\ last.lkIs

\* C30 amended: a call answered by the incremental path or the full walk
\* leaves the cache holding the position for the token and the last-known
\* position equal to (token, row, col); a call answered from the cache
\* leaves the cache holding it and the last-known position as it was.
C30_ComputedAnswerIsStored ==
    Answered =>
        /\ last.held
        /\ IF last.path = "cache" THEN last.lkSame ELSE last.lkIs

C30_Witness ==
    /\ Answered /\ last.path = "incremental"
    /\ last.held /\ last.lkIs /\ ~last.lkSame

\* C38: the pair (0, 0) is never stored: every entry of the cache and the
\* last known position have a row and a column of at least 1, whatever
\* calls succeeded or failed before, incremental moves forward and backward
\* included.
C38_StoredPositionsAreOneBased ==
    /\ \A i \in 1..Len(cache) : cache[i].row >= 1 /\ cache[i].col >= 1
    /\ lastKnown # None => (lastKnown[2] >= 1 /\ lastKnown[3] >= 1)

\* A call failed in both paths and returned (0, 0) while the cache is full
\* and a last known position on the first row is kept from the calls
\* before it.
C38_Witness ==
    /\ last.res = SENTINEL /\ last.fullFailed /\ last.incFailed
    /\ Len(cache) = MAX_CACHE_SIZE /\ lastKnown # None
    /\ lastKnown[2] = 1 /\ lastKnown[1] > 0

\* C36: event_gainFocus empties the cache and drops the last known
\* position together, so the first calculate call after it finds neither:
\* it does not answer from the cache and does not take the incremental
\* path.
C36_RebindStartsAfresh ==
    last.first => (last.fresh /\ last.path \notin {"cache", "incremental"})

\* The first call after a rebind walked from the start and stored what it
\* found for a token beyond the first line.
C36_Witness ==
    /\ last.first /\ last.path = "full" /\ last.held /\ last.lkIs
    /\ last.res # SENTINEL /\ last.res[1] > 1


\* ------------------------------------------- the full walk, step by step
walkRest ==
    <<now, stale, watch, last, spoken, threadVars, cursorVars, typedAt,
      monitorVars, outputVars, pluginVars, reading, timers,
      _cursorTrackingTimer>>

\* The loop is cut off in the model after this many iterations; the code's
\* loop never gets that far.
MaxWalk == MaxLines + 1

\* _calculate_full up to its loop: the walker is at the first position.
walk_start ==
    /\ walker.at = "idle"
    /\ \E target \in Offsets(buf) :
         walker' = [at |-> "loop", pos |-> 0, target |-> target,
                    lineCount |-> 0, ended |-> "none"]
    /\ UNCHANGED <<walkRest, buf, cache, lastKnown>>

cannotMove_never(m) == FALSE

\* if moved == 0: break
cannotMove(m) == m.moved = 0

\* The walker after one evaluation of the loop condition and, when it
\* holds, one run of the loop body with the move m.
walked(w, m) ==
    IF ~(compareEndPoints(w.pos, w.target) < 0)
    THEN [w EXCEPT !.at = "done", !.ended = "reached"]
    ELSE IF cannotMove(m)
    THEN [w EXCEPT !.at = "done", !.ended = "noMove"]
    ELSE [w EXCEPT !.pos = m.pos, !.lineCount = @ + 1]

\* One turn of `while startInfo.compareEndPoints(targetCopy, ...) < 0`.
walk_step ==
    /\ walker.at = "loop"
    /\ walker.lineCount < MaxWalk
    /\ walker' = walked(walker, move(buf, walker.pos, 1))
    /\ UNCHANGED <<walkRest, buf, cache, lastKnown>>

\* The rest of _calculate_full: the column, "cache and store", return.
walk_return ==
    /\ walker.at = "done"
    /\ cache' = set(cache, walker.target, walker.lineCount + 1,
                    columnFrom(buf, walker.target, walker.target), now)
    /\ lastKnown' = <<walker.target, walker.lineCount + 1,
                      columnFrom(buf, walker.target, walker.target)>>
    /\ walker' = NoWalk
    /\ UNCHANGED <<walkRest, buf>>

walk_tick ==
    /\ now < MaxTime
    /\ now' = now + 1
    /\ UNCHANGED <<sideVars, buf, cache, lastKnown, stale, watch, last, spoken>>

NextWalk == walk_start \/ walk_step \/ walk_return \/ walk_tick

\* The thread that runs the loop goes on running it.
InitWalk == InitView("walk")

SpecWalk == InitWalk /\ [][NextWalk]_vars /\ WF_vars(walk_step)

\* C31: on every buffer and for every token the line-counting loop of the
\* full walk ends: a walk in its loop gets out of it, because the walker
\* reached or passed the token or because it could not move a line.
C31_FullWalkTerminates == (walker.at = "loop") ~> (walker.at = "done")

C31_Witness ==
    /\ walker.at = "done" /\ walker.lineCount = MaxLines - 1
    /\ walker.ended = "noMove"

\* ------------------------------------------------- the cursor timer handle
timerRest ==
    <<buf, now, cache, lastKnown, stale, watch, last, spoken, threadVars,
      typedAt, monitorVars, outputVars, pluginVars, walker, reading>>

Pending == {t \in TimerIds : timers[t] = "pending"}

Stop_nothing(ts, handle) == ts

\* self._cursorTrackingTimer.Stop(): a pending timer will not fire; Stop
\* on a timer that fired or was stopped changes nothing.
Stop(ts, handle) ==
    IF handle # 0 /\ ts[handle] = "pending"
    THEN [ts EXCEPT ![handle] = "stopped"]
    ELSE ts

\* GlobalPlugin.event_caret with the timers as objects: outside a terminal,
\* with tracking off or in quiet mode nothing happens; else the timer of
\* the handle is stopped and a new single-shot timer takes its place.
event_caret_handle ==
    /\ \E isTerminalApp \in BOOLEAN :
         IF ~isTerminalApp \/ ~conf.cursorTracking \/ conf.quietMode
         THEN UNCHANGED <<timers, _cursorTrackingTimer>>
         ELSE \E new \in TimerIds :
                /\ timers[new] = "unused"
                /\ \A t \in TimerIds : t < new => timers[t] # "unused"
                /\ timers' = [Stop(timers, _cursorTrackingTimer)
                                EXCEPT ![new] = "pending"]
                /\ _cursorTrackingTimer' = new
    /\ UNCHANGED <<timerRest, cursorVars>>

\* A pending timer fires, once: _announceCursorPosition runs.
CallLater_fires(t) ==
    /\ timers[t] = "pending"
    /\ timers' = [timers EXCEPT ![t] = "fired"]
    /\ announced
    /\ UNCHANGED <<timerRest, _cursorTrackingTimer, screen, caret, conf,
                   cursorTimer>>

NextTimers ==
    \/ event_caret_handle
    \/ \E t \in TimerIds : CallLater_fires(t)
    \/ setConfig
    \/ hostMovesCaret

SpecTimers == InitCursor /\ [][NextTimers]_vars

OneTimerPending ==
    /\ Cardinality(Pending) <= 1
    /\ Pending \subseteq {_cursorTrackingTimer}

\* A timer that fired or was stopped stays so: its callback does not run
\* again, whatever is stopped or scheduled later.
RunsOnce ==
    \A t \in TimerIds :
        timers[t] \in {"fired", "stopped"} => timers'[t] = timers[t]

\* C32: at most one cursor-announcement timer is pending, the one that the
\* handle names, and the callback of a timer runs at most once: a timer
\* that fired is never pending again, also when it is stopped afterwards.
C32_OneTimerEachOnce == []OneTimerPending /\ [][RunsOnce]_vars

C32_Witness ==
    /\ Cardinality(Pending) = 1
    /\ \E t \in TimerIds : timers[t] = "stopped"
    /\ \E t \in TimerIds : timers[t] = "fired"

\* ------------------------------------------- the threads that read (SpecReads)
readRest ==
    <<buf, now, cache, lastKnown, stale, watch, last, spoken, threadVars,
      cursorVars, typedAt, monitorVars, outputVars, pluginVars, walker,
      timers, _cursorTrackingTimer>>

\* A call into the terminal object, from its start to its return.
Read(thread, id, what) == [thread |-> thread, id |-> id, what |-> what]

\* _announceStandardCursor on the thread of the events and timers:
\* obj.makeTextInfo(POSITION_CARET), expand and text.  No lock is taken.
_announceStandardCursor_begin ==
    /\ ~inRead("foreground", 0)
    /\ reading' = reading \cup {Read("foreground", 0, "caret")}
    /\ UNCHANGED readRest

_announceStandardCursor_end ==
    /\ inRead("foreground", 0)
    /\ reading' = {r \in reading : r.thread # "foreground"}
    /\ UNCHANGED readRest

\* _extract_window_content on the thread of _monitor_loop, inside the
\* locked block: self._terminal.makeTextInfo(POSITION_ALL).text.  The lock
\* is the monitor's own; no other reader takes it.
_extract_window_content_begin(w) ==
    /\ workers[w] = "locked"
    /\ ~inRead("worker", w)
    /\ \E i \in checked(time_ms(clock)) :
         reading' = reading \cup {Read("worker", w, "region")}
    /\ UNCHANGED readRest

_extract_window_content_end(w) ==
    /\ inRead("worker", w)
    /\ reading' = {r \in reading : ~(r.thread = "worker" /\ r.id = w)}
    /\ UNCHANGED readRest

\* _performRectangularCopy on the thread that the queue started:
\* terminal.makeTextInfo, move, expand and text for every row.  No lock is
\* taken.
_performRectangularCopy_begin(t) ==
    /\ ops[t] = "running"
    /\ ~inRead("copy", t)
    /\ reading' = reading \cup {Read("copy", t, "rows")}
    /\ UNCHANGED readRest

_performRectangularCopy_end(t) ==
    /\ inRead("copy", t)
    /\ reading' = {r \in reading : ~(r.thread = "copy" /\ r.id = t)}
    /\ UNCHANGED readRest

NextReads ==
    \/ _announceStandardCursor_begin
    \/ _announceStandardCursor_end
    \/ add_monitor("stop")
    \/ start_monitoring("stop")
    \/ \E w \in Workers : monitor_enter(w)
    \/ \E w \in Workers : _extract_window_content_begin(w)
    \/ \E w \in Workers : _extract_window_content_end(w)
    \/ \E w \in Workers : monitor_poll("stop", w)
    \/ script_copyRectangularSelection_large
    \/ \E t \in OpIds : _performRectangularCopy_begin(t)
    \/ \E t \in OpIds : _performRectangularCopy_end(t)
    \/ \E t \in OpIds : _copyRectangularSelectionBackground(t)
    \/ \E t \in OpIds : thread_exit(t)

SpecReads == InitMonitor /\ [][NextReads]_vars

\* C35: the terminal is never read by two threads at the same time: no
\* read on the thread of the monitor or on another background thread is in
\* progress while the foreground thread reads, nor while another
\* background thread reads.
C35_OneReaderAtATime == Cardinality(reading) <= 1

====
